---- MODULE Spec2Model ----
(***************************************************************************)
(* The alert manager of the risk-monitoring service (alerts/manager.go),   *)
(* and the jobs that feed it.                                              *)
(*                                                                         *)
(* Specifications.                                                         *)
(*   - Spec: the manager, one call at a time.                              *)
(*   - SpecConc: two concurrent callers of Observe, each critical section  *)
(*     of the lock one step.                                               *)
(*   - SpecLock: concurrent callers with the lock taken and released in    *)
(*     separate steps.                                                     *)
(*   - SpecDepeg: the oracle job's observations of one stablecoin.         *)
(*   - SpecWhale: the runs of the concentration job's whale check.         *)
(*   - SpecOracle: the runs of the oracle monitor of one chain.            *)
(*   - SpecSched: the scheduler (Worker) and the shutdown of main.         *)
(*   - SpecSchedFair: SpecSched with the fairness of the Go runtime.       *)
(*   - SpecSnap: GetActiveIncidents and ClearAll among Observe calls.      *)
(*   - SpecHealth: the runs of the oracle monitor of a chain of ten tokens.*)
(*   - SpecTokenError: the runs of the oracle monitor at uneven intervals. *)
(*   - SpecRisky: the 24 h risky-count check of the health-aggregate job.  *)
(*   - SpecFanout: the goroutines of checkAllTokens and their semaphore.   *)
(*   - SpecFanoutFair: SpecFanout with the fairness of the Go runtime.     *)
(*                                                                         *)
(* Representation.                                                         *)
(*   - time.Time / time.Duration are integers, in seconds.                 *)
(*   - float64 metric values are integers in hundredths (2.3 is 230);      *)
(*     MinValueChange is in hundredths of a percent (5% is 500), so the    *)
(*     min-change comparison is done exactly, by cross-multiplication.     *)
(*   - the states and policies maps are functions whose DOMAIN is the set  *)
(*     of keys present in the map.                                         *)
(*   - a formatted message is the record of its emoji, title and details   *)
(*     (the format functions use nothing else of their arguments; the      *)
(*     summary argument of Observe reaches no message and no state).       *)
(***************************************************************************)
EXTENDS Integers, Sequences, FiniteSets, TLC

VARIABLES
    states,     \* Manager.states: AlertKey -> AlertState (present keys only)
    policies,   \* Manager.policies: "job:metric" -> AlertPolicy
    now,        \* the reading of Manager.clock
    last,       \* the record of the Observe call that has just been made
    observed,   \* history: per key, the severity of its latest observation
    sentSeen,   \* history: per key, the LastSent of its latest stored state
    procs,      \* concurrent callers: the position and locals of each in Observe
    sendLog,    \* concurrent callers: the sink calls made since the calls began
    base,       \* concurrent callers: the states map when the calls began
    round,      \* concurrent callers: how many groups of calls have begun
    mu,         \* Manager.mu: its writer, if any, and its readers
    previousWhales, \* ConcentrationJob.previousWhales
    absentRuns, \* history: per address, the completed whale checks in a row
                \* whose result set did not contain it
    runs,       \* the number of runs of the concentration job so far
    monitor,    \* OracleMonitor: its failures counter, and its latest run
    workers,    \* the goroutines that Worker.Start spawns, one per job
    sched,      \* Worker.jobs, Worker.wg, the root context, the position of main,
                \* the database handles open and the ticks fired so far
    snapshot,   \* the map a caller holds from GetActiveIncidents
    aggregate,  \* HealthAggregateJob: its 24 h baseline, and its latest run
    fanout      \* checkAllTokens: its goroutines, semaphore and result channel

vars == <<states, policies, now, last, observed, sentSeen, procs, sendLog, base, round, mu, previousWhales, absentRuns, runs, monitor, workers, sched, snapshot, aggregate, fanout>>

oracleVars == <<monitor>>

schedVars == <<workers, sched>>

extraVars == <<snapshot, aggregate, fanout>>

lockVars == <<mu>>

whaleVars == <<previousWhales, absentRuns, runs>>

concVars == <<procs, sendLog, base, round>>

seqVars == <<last, observed, sentSeen>>

----------------------------------------------------------------------------
(* Bounds of the model *)

\* number of instants of the list below that the clock may take
MaxInstant == 4

\* the readings of the clock (seconds): the gaps between them fall on both
\* sides of every cooldown and reminder interval of the policies below
Instants == <<0, 10, 300, 3600, 30, 3900, 7200, 10800>>

Abs(x) == IF x < 0 THEN -x ELSE x

Min(S) == CHOOSE x \in S : \A y \in S : x <= y

----------------------------------------------------------------------------
(* Data model *)

SeverityOK == "OK"
SeverityWarning == "WARNING"
SeverityCritical == "CRITICAL"

Severities == {SeverityOK, SeverityWarning, SeverityCritical}

severityLevel(s) ==
    CASE s = SeverityOK -> 0
      [] s = SeverityWarning -> 1
      [] s = SeverityCritical -> 2
      [] OTHER -> 0

AlertKey(job, entity, metric) == [Job |-> job, Entity |-> entity, Metric |-> metric]

\* fmt.Sprintf("%s:%s", job, metric)
policyKey(job, metric) == <<job, metric>>

\* The policy used when none is registered for job:metric
DefaultPolicy ==
    [ MinValueChange        |-> 1000,
      CooldownWarning       |-> 15 * 60,
      CooldownCritical      |-> 5 * 60,
      DynamicCooldowns      |-> <<>>,
      ReminderInterval      |-> 60 * 60,
      TriggerThreshold      |-> 0,
      ConsecutiveOKRequired |-> 2 ]

DynamicCooldown(threshold, cooldown) == [Threshold |-> threshold, Cooldown |-> cooldown]

\* the zero value of alertAction
NoMessage == [emoji |-> "", title |-> "", details |-> ""]

EmptyAction ==
    [ shouldSend      |-> FALSE,
      message         |-> NoMessage,
      isBusinessAlert |-> FALSE,
      slackMessage    |-> "",
      newState        |-> <<>>,
      deleteState     |-> FALSE ]

AlertState(severity, lastSent, firstTriggered, lastValue, lastMessage, consecutiveOK) ==
    [ Severity       |-> severity,
      LastSent       |-> lastSent,
      FirstTriggered |-> firstTriggered,
      LastValue      |-> lastValue,
      LastMessage    |-> lastMessage,
      ConsecutiveOK  |-> consecutiveOK ]

----------------------------------------------------------------------------
(* Message formatting *)

getAlertTitle(metric) ==
    CASE metric = "price_deviation_stable"   -> "STABLECOIN DEPEG ALERT"
      [] metric = "price_deviation_volatile" -> "ORACLE PRICE DEVIATION"
      [] metric = "system_health"            -> "ORACLE SYSTEM HEALTH"
      [] metric = "token_error"              -> "TOKEN PRICE ERROR"
      [] metric = "whale_supply"             -> "WHALE POSITION ALERT"
      [] OTHER                               -> "UPPER " \o metric

formatNewIncidentMessage(key, details) ==
    [emoji |-> "alarm", title |-> getAlertTitle(key.Metric), details |-> details]

formatEscalationMessage(key, details) ==
    [emoji |-> "alarm", title |-> getAlertTitle(key.Metric), details |-> details]

formatDeescalationMessage(key, details) ==
    [emoji |-> "check", title |-> getAlertTitle(key.Metric), details |-> details]

formatUpdateMessage(key, details) ==
    [emoji |-> "alarm", title |-> getAlertTitle(key.Metric), details |-> details]

----------------------------------------------------------------------------
(* The decision procedure *)

\* (mutant) the last matching pair of the list instead of the first
calculateCooldownLastMatch(policy, severity, value) ==
    LET dcs  == policy.DynamicCooldowns
        hits == {i \in 1..Len(dcs) : value >= dcs[i].Threshold}
    IN  IF hits # {}
        THEN dcs[CHOOSE i \in hits : \A j \in hits : j <= i].Cooldown
        ELSE IF severity = SeverityCritical
             THEN policy.CooldownCritical
             ELSE policy.CooldownWarning

calculateCooldown(policy, severity, value) ==
    LET dcs  == policy.DynamicCooldowns
        hits == {i \in 1..Len(dcs) : value >= dcs[i].Threshold}
    IN  IF hits # {}
        THEN dcs[Min(hits)].Cooldown
        ELSE IF severity = SeverityCritical
             THEN policy.CooldownCritical
             ELSE policy.CooldownWarning

\* (mutant) the change taken relative to the new value
minorFluctuationOfNew(policy, lastValue, value) ==
    IF value # 0
    THEN Abs(value - lastValue) * 10000 < policy.MinValueChange * Abs(value)
    ELSE IF lastValue # 0
         THEN 100 * 100 < policy.MinValueChange
         ELSE 0 < policy.MinValueChange

\* (mutant) the change taken as a difference of the values, not relative
minorFluctuationAbsolute(policy, lastValue, value) ==
    Abs(value - lastValue) < policy.MinValueChange

\* percentChange < policy.MinValueChange, with percentChange as the code
\* computes it (0 when both values are 0)
minorFluctuation(policy, lastValue, value) ==
    IF lastValue # 0
    THEN Abs(value - lastValue) * 10000 < policy.MinValueChange * Abs(lastValue)
    ELSE IF value # 0
         THEN 100 * 100 < policy.MinValueChange
         ELSE 0 < policy.MinValueChange

sendingAction(msg, isBusinessAlert, slackMessage, severity, t, firstTriggered, value) ==
    [ shouldSend      |-> TRUE,
      message         |-> msg,
      isBusinessAlert |-> isBusinessAlert,
      slackMessage    |-> slackMessage,
      newState        |-> <<AlertState(severity, t, firstTriggered, value, msg, 0)>>,
      deleteState     |-> FALSE ]

\* The policy evaluateObservation looks up for a key
policyFor(pol, key) ==
    IF policyKey(key.Job, key.Metric) \in DOMAIN pol
    THEN pol[policyKey(key.Job, key.Metric)]
    ELSE DefaultPolicy

\* (mutant) a recovery notification is sent when the incident is cleared
okActionNotify(state, policy) ==
    IF /\ state.ConsecutiveOK >= policy.ConsecutiveOKRequired
       /\ state.Severity # SeverityOK
    THEN [ shouldSend      |-> TRUE,
           message         |-> [emoji |-> "check", title |-> "", details |-> ""],
           isBusinessAlert |-> FALSE,
           slackMessage    |-> "",
           newState        |-> <<>>,
           deleteState     |-> TRUE ]
    ELSE EmptyAction

\* (mutant) a recovered incident kept in the map with severity OK
okActionStoresOK(state, policy) ==
    IF /\ state.ConsecutiveOK >= policy.ConsecutiveOKRequired
       /\ state.Severity # SeverityOK
    THEN [EmptyAction EXCEPT !.newState = <<[state EXCEPT !.Severity = SeverityOK]>>]
    ELSE EmptyAction

\* (mutant) the incident cleared one OK reading late
okActionLate(state, policy) ==
    IF /\ state.ConsecutiveOK > policy.ConsecutiveOKRequired
       /\ state.Severity # SeverityOK
    THEN [EmptyAction EXCEPT !.deleteState = TRUE]
    ELSE EmptyAction

\* 1. OK observation on a key that has a state (ConsecutiveOK already
\* incremented): clear silently, or only keep the incremented counter
okAction(state, policy) ==
    IF /\ state.ConsecutiveOK >= policy.ConsecutiveOKRequired
       /\ state.Severity # SeverityOK
    THEN [EmptyAction EXCEPT !.deleteState = TRUE]
    ELSE EmptyAction

\* (mutant) a non-OK observation leaves the counter as it is
keepConsecutiveOK(consecutiveOK) == consecutiveOK

\* The value of ConsecutiveOK a non-OK observation leaves in the stored state
resetConsecutiveOK(consecutiveOK) == 0

\* 2. New incident
isNewIncident(exists, state) == ~exists \/ state.Severity = SeverityOK

newIncidentAction(state, t, key, severity, value, details, isBusinessAlert, slackMessage) ==
    sendingAction(formatNewIncidentMessage(key, details),
                  isBusinessAlert, slackMessage, severity, t, t, value)

\* (mutant) the comparison of the levels the wrong way round
isEscalationSwapped(severity, state) ==
    severityLevel(severity) < severityLevel(state.Severity)

\* (mutant) an escalation sent to the developers only
escalationActionDeveloperOnly(state, t, key, severity, value, details, isBusinessAlert, slackMessage) ==
    sendingAction(formatEscalationMessage(key, details),
                  FALSE, "", severity, t, state.FirstTriggered, value)

\* (mutant) an escalation that restarts the incident
escalationActionRestart(state, t, key, severity, value, details, isBusinessAlert, slackMessage) ==
    sendingAction(formatEscalationMessage(key, details),
                  isBusinessAlert, slackMessage, severity, t, t, value)

\* 3. Escalation
isEscalation(severity, state) ==
    severityLevel(severity) > severityLevel(state.Severity)

escalationAction(state, t, key, severity, value, details, isBusinessAlert, slackMessage) ==
    sendingAction(formatEscalationMessage(key, details),
                  isBusinessAlert, slackMessage, severity, t,
                  state.FirstTriggered, value)

\* (mutant) a de-escalation routed like an escalation
deescalationActionRouted(state, t, key, severity, value, details, isBusinessAlert, slackMessage) ==
    sendingAction(formatDeescalationMessage(key, details),
                  isBusinessAlert, slackMessage, severity, t,
                  state.FirstTriggered, value)

\* 4. De-escalation
isDeescalation(severity, state) ==
    severityLevel(severity) < severityLevel(state.Severity)

deescalationAction(state, t, key, severity, value, details, isBusinessAlert, slackMessage) ==
    sendingAction(formatDeescalationMessage(key, details),
                  FALSE, "", severity, t, state.FirstTriggered, value)

\* (mutant) reminders for Warning incidents too
reminderDueAnySeverity(policy, state, severity, t) ==
    /\ policy.ReminderInterval > 0
    /\ t - state.FirstTriggered >= policy.ReminderInterval
    /\ t - state.LastSent >= policy.ReminderInterval

\* (mutant) the update stores the start of the incident as LastSent
updateActionStale(state, t, key, severity, value, details, isBusinessAlert, slackMessage) ==
    LET sendToBusiness == isBusinessAlert /\ severity = SeverityCritical
    IN  sendingAction(formatUpdateMessage(key, details),
                      sendToBusiness,
                      IF sendToBusiness THEN slackMessage ELSE "",
                      severity, state.FirstTriggered, state.FirstTriggered, value)

\* (mutant) the update of a Warning incident routed to Business too
updateActionAnySeverity(state, t, key, severity, value, details, isBusinessAlert, slackMessage) ==
    sendingAction(formatUpdateMessage(key, details),
                  isBusinessAlert, slackMessage, severity, t,
                  state.FirstTriggered, value)

\* (mutant) the cooldown counted from the start of the incident
inCooldownSinceFirst(policy, state, severity, value, t) ==
    t - state.FirstTriggered < calculateCooldown(policy, severity, value)

\* (mutant) the reminder routed like a new incident
reminderActionRouted(state, t, key, severity, value, details, isBusinessAlert, slackMessage) ==
    sendingAction(formatNewIncidentMessage(key, details),
                  isBusinessAlert, slackMessage, severity, t,
                  state.FirstTriggered, value)

\* 5. Same severity: reminder, cooldown gate, min-change gate, update
reminderDue(policy, state, severity, t) ==
    /\ policy.ReminderInterval > 0
    /\ t - state.FirstTriggered >= policy.ReminderInterval
    /\ t - state.LastSent >= policy.ReminderInterval
    /\ severity = SeverityCritical

reminderAction(state, t, key, severity, value, details, isBusinessAlert, slackMessage) ==
    sendingAction(formatNewIncidentMessage(key, details),
                  FALSE, "", severity, t, state.FirstTriggered, value)

inCooldown(policy, state, severity, value, t) ==
    t - state.LastSent < calculateCooldown(policy, severity, value)

updateAction(state, t, key, severity, value, details, isBusinessAlert, slackMessage) ==
    LET sendToBusiness == isBusinessAlert /\ severity = SeverityCritical
    IN  sendingAction(formatUpdateMessage(key, details),
                      sendToBusiness,
                      IF sendToBusiness THEN slackMessage ELSE "",
                      severity, t, state.FirstTriggered, value)

\* Steps 2-6 of evaluateObservation, for a non-OK observation; state is the
\* stored state of the key (ConsecutiveOK already reset) when exists
decideNonOK(exists, state, policy, t, key, severity, value, details, isBusinessAlert, slackMessage) ==
    IF isNewIncident(exists, state)
    THEN newIncidentAction(state, t, key, severity, value, details,
                           isBusinessAlert, slackMessage)
    ELSE IF isEscalation(severity, state)
    THEN escalationAction(state, t, key, severity, value, details,
                          isBusinessAlert, slackMessage)
    ELSE IF isDeescalation(severity, state)
    THEN deescalationAction(state, t, key, severity, value, details,
                            isBusinessAlert, slackMessage)
    ELSE IF reminderDue(policy, state, severity, t)
    THEN reminderAction(state, t, key, severity, value, details,
                        isBusinessAlert, slackMessage)
    ELSE IF inCooldown(policy, state, severity, value, t)
    THEN EmptyAction
    ELSE IF minorFluctuation(policy, state.LastValue, value)
    THEN EmptyAction
    ELSE updateAction(state, t, key, severity, value, details,
                      isBusinessAlert, slackMessage)

\* The zero AlertState, standing for the nil pointer of an absent key
NilState == AlertState("", 0, 0, 0, NoMessage, 0)

\* evaluateObservation: the decision record, and the states map as the call
\* leaves it (the stored AlertState is updated in place through its pointer)
evaluateObservation(st, pol, t, key, severity, value, details, isBusinessAlert, slackMessage) ==
    LET exists == key \in DOMAIN st
        policy == policyFor(pol, key)
    IN  IF severity = SeverityOK
        THEN IF ~exists
             THEN [action |-> EmptyAction, states |-> st]
             ELSE LET st1 == [st EXCEPT ![key].ConsecutiveOK = @ + 1]
                  IN  [action |-> okAction(st1[key], policy), states |-> st1]
        ELSE LET st1 == IF exists
                        THEN [st EXCEPT ![key].ConsecutiveOK =
                                           resetConsecutiveOK(@)]
                        ELSE st
                 state == IF exists THEN st1[key] ELSE NilState
             IN  [action |-> decideNonOK(exists, state, policy, t, key, severity,
                                        value, details, isBusinessAlert, slackMessage),
                  states |-> st1]

----------------------------------------------------------------------------
(* Sending *)

Sinks == {"Business", "Slack", "Developer"}

call(sink, msg, ok) == [sink |-> sink, msg |-> msg, ok |-> ok]

\* (mutant) the failure of the Developer mirror returned to the caller
sendAlertMirrorFails(message, isBusinessAlert, slackMessage, sinkOK) ==
    IF isBusinessAlert
    THEN IF ~sinkOK["Business"]
         THEN [calls |-> <<call("Business", message, FALSE)>>, err |-> TRUE]
         ELSE [calls |-> <<call("Business", message, TRUE)>>
                         \o (IF slackMessage # ""
                             THEN <<call("Slack", slackMessage, sinkOK["Slack"])>>
                             ELSE <<>>)
                         \o <<call("Developer", message, sinkOK["Developer"])>>,
               err |-> ~sinkOK["Developer"]]
    ELSE [calls |-> <<call("Developer", message, sinkOK["Developer"])>>,
          err |-> ~sinkOK["Developer"]]

\* (mutant) Slack and the Developer mirror tried after a failed Business send
sendAlertAllSinks(message, isBusinessAlert, slackMessage, sinkOK) ==
    IF isBusinessAlert
    THEN [calls |-> <<call("Business", message, sinkOK["Business"])>>
                    \o (IF slackMessage # ""
                        THEN <<call("Slack", slackMessage, sinkOK["Slack"])>>
                        ELSE <<>>)
                    \o <<call("Developer", message, sinkOK["Developer"])>>,
          err |-> ~sinkOK["Business"]]
    ELSE [calls |-> <<call("Developer", message, sinkOK["Developer"])>>,
          err |-> ~sinkOK["Developer"]]

\* sendAlert: the sink calls it makes, in order, and whether it returns an
\* error; sinkOK[s] tells whether a call of sink s succeeds
sendAlert(message, isBusinessAlert, slackMessage, sinkOK) ==
    IF isBusinessAlert
    THEN IF ~sinkOK["Business"]
         THEN [calls |-> <<call("Business", message, FALSE)>>, err |-> TRUE]
         ELSE [calls |-> <<call("Business", message, TRUE)>>
                         \o (IF slackMessage # ""
                             THEN <<call("Slack", slackMessage, sinkOK["Slack"])>>
                             ELSE <<>>)
                         \o <<call("Developer", message, sinkOK["Developer"])>>,
               err |-> FALSE]
    ELSE [calls |-> <<call("Developer", message, sinkOK["Developer"])>>,
          err |-> ~sinkOK["Developer"]]

\* The state bookkeeping at the end of Observe
persist(st, key, action) ==
    IF action.deleteState
    THEN [k \in DOMAIN st \ {key} |-> st[k]]
    ELSE IF action.newState # <<>>
    THEN [k \in DOMAIN st \cup {key} |->
             IF k = key THEN action.newState[1] ELSE st[k]]
    ELSE st

\* (mutant) a suppressed observation still recorded as the last value
observeResultTracksValue(st, pol, t, key, severity, value, details, isBusinessAlert, slackMessage, sinkOK) ==
    LET ev     == evaluateObservation(st, pol, t, key, severity, value, details,
                                      isBusinessAlert, slackMessage)
        action == ev.action
        sent   == sendAlert(action.message, action.isBusinessAlert,
                            action.slackMessage, sinkOK)
    IN  IF ~action.shouldSend /\ action.newState = <<>> /\ ~action.deleteState
        THEN [states |-> IF key \in DOMAIN ev.states /\ severity # SeverityOK
                         THEN [ev.states EXCEPT ![key].LastValue = value]
                         ELSE ev.states,
              calls |-> <<>>, err |-> FALSE, action |-> action]
        ELSE IF action.shouldSend /\ sent.err
        THEN [states |-> ev.states, calls |-> sent.calls, err |-> TRUE,
              action |-> action]
        ELSE [states |-> persist(ev.states, key, action),
              calls  |-> IF action.shouldSend THEN sent.calls ELSE <<>>,
              err    |-> FALSE,
              action |-> action]

\* (mutant) the state updated although the send failed
observeResultStoresUnsent(st, pol, t, key, severity, value, details, isBusinessAlert, slackMessage, sinkOK) ==
    LET ev     == evaluateObservation(st, pol, t, key, severity, value, details,
                                      isBusinessAlert, slackMessage)
        action == ev.action
        sent   == sendAlert(action.message, action.isBusinessAlert,
                            action.slackMessage, sinkOK)
    IN  IF ~action.shouldSend /\ action.newState = <<>> /\ ~action.deleteState
        THEN [states |-> ev.states, calls |-> <<>>, err |-> FALSE, action |-> action]
        ELSE [states |-> persist(ev.states, key, action),
              calls  |-> IF action.shouldSend THEN sent.calls ELSE <<>>,
              err    |-> action.shouldSend /\ sent.err,
              action |-> action]

\* A whole Observe call: the states map afterwards, the sink calls made and
\* the error returned
observeResult(st, pol, t, key, severity, value, details, isBusinessAlert, slackMessage, sinkOK) ==
    LET ev     == evaluateObservation(st, pol, t, key, severity, value, details,
                                      isBusinessAlert, slackMessage)
        action == ev.action
        sent   == sendAlert(action.message, action.isBusinessAlert,
                            action.slackMessage, sinkOK)
    IN  IF ~action.shouldSend /\ action.newState = <<>> /\ ~action.deleteState
        THEN [states |-> ev.states, calls |-> <<>>, err |-> FALSE, action |-> action]
        ELSE IF action.shouldSend /\ sent.err
        THEN [states |-> ev.states, calls |-> sent.calls, err |-> TRUE,
              action |-> action]
        ELSE [states |-> persist(ev.states, key, action),
              calls  |-> IF action.shouldSend THEN sent.calls ELSE <<>>,
              err    |-> FALSE,
              action |-> action]

\* GetActiveIncidents: the snapshot of the entries whose severity is not OK
GetActiveIncidents(st) ==
    LET active == {k \in DOMAIN st : st[k].Severity # SeverityOK}
    IN  [k \in active |-> st[k]]

----------------------------------------------------------------------------
(* Inputs *)

Jobs == {"oracle_base"}
Metrics == {"price_deviation_stable"}
Entities == {"USDC"}

Keys == {AlertKey(j, e, m) : j \in Jobs, e \in Entities, m \in Metrics}

Values == {0, 1500, 2500}

DetailsTexts == {"details"}

SlackTexts == {"", "slack"}

\* Outcomes of the sinks during one call: the set of sinks whose send fails
SinkFailures == {{}, {"Business"}, {"Developer"}, {"Slack"}}

sinkOKOf(failing) == [s \in Sinks |-> s \notin failing]

\* Policies that may be registered
FixedPolicy ==
    [ MinValueChange        |-> 5000,
      CooldownWarning       |-> 15 * 60,
      CooldownCritical      |-> 10 * 60,
      DynamicCooldowns      |-> <<>>,
      ReminderInterval      |-> 0,
      TriggerThreshold      |-> 1000,
      ConsecutiveOKRequired |-> 1 ]

DynamicPolicy ==
    [ MinValueChange        |-> 100,
      CooldownWarning       |-> 300,
      CooldownCritical      |-> 300,
      DynamicCooldowns      |-> <<DynamicCooldown(2000, 10), DynamicCooldown(1000, 30)>>,
      ReminderInterval      |-> 60 * 60,
      TriggerThreshold      |-> 1000,
      ConsecutiveOKRequired |-> 3 ]

Policies == {FixedPolicy, DynamicPolicy}

NoCall == [op |-> "none"]

\* the key of the scenarios
ScenarioKey == AlertKey("oracle_base", "USDC", "price_deviation_stable")

AllSinksOK == [s \in Sinks |-> TRUE]

\* The goroutines that call Observe at the same time
Callers == {"a", "b"}

\* a caller that is not inside Observe
Idle == [pc |-> "idle"]

\* sync.RWMutex with no holder
Unlocked == [writer |-> "none", readers |-> {}]

\* the addresses the whale query may return
WhaleAddresses == {"0xA", "0xB"}

\* an oracle monitor that has not run
NoRun == [ran |-> FALSE]

\* the monitor NewOracleMonitor returns
NewMonitor == [failures |-> 0, ticks |-> 0, lastRun |-> NoRun]

\* no map has been taken from GetActiveIncidents
NoSnapshot == [taken |-> FALSE]

\* no health-aggregate job has been constructed
NoAggregate == [started |-> FALSE]

\* checkAllTokens has not been called
NoFanout == [started |-> FALSE]

\* NewWorker, and main before it has registered a job
NoSched == [jobs |-> <<>>, mainpc |-> "start", cancelled |-> FALSE, wg |-> 0, handles |-> {}, ticks |-> 0]

----------------------------------------------------------------------------
(* The manager, one call at a time.  A step Observe is one whole call; its
   record stays in last until the caller takes the result (Return). *)

Init ==
    /\ states = <<>>
    /\ policies = <<>>
    /\ now = Instants[1]
    /\ last = NoCall
    /\ observed = [k \in Keys |-> "none"]
    /\ sentSeen = [k \in Keys |-> 0]
    /\ procs = [c \in Callers |-> Idle]
    /\ sendLog = <<>>
    /\ base = <<>>
    /\ round = 0
    /\ mu = Unlocked
    /\ previousWhales = {}
    /\ absentRuns = [a \in WhaleAddresses |-> 0]
    /\ runs = 0
    /\ monitor = NewMonitor
    /\ workers = <<>>
    /\ sched = NoSched
    /\ snapshot = NoSnapshot
    /\ aggregate = NoAggregate
    /\ fanout = NoFanout

RegisterPolicy(job, metric, policy) ==
    /\ last = NoCall
    /\ policies' = [k \in DOMAIN policies \cup {policyKey(job, metric)} |->
                       IF k = policyKey(job, metric) THEN policy ELSE policies[k]]
    /\ UNCHANGED <<states, now, last, observed, sentSeen, concVars, lockVars, whaleVars, oracleVars, schedVars, extraVars>>

Observe(key, severity, value, details, isBusinessAlert, slackMessage, sinkOK) ==
    LET r == observeResult(states, policies, now, key, severity, value, details,
                           isBusinessAlert, slackMessage, sinkOK)
    IN  /\ last = NoCall
        /\ states' = r.states
        /\ last' = [ op              |-> "Observe",
                     key             |-> key,
                     severity        |-> severity,
                     value           |-> value,
                     details         |-> details,
                     isBusinessAlert |-> isBusinessAlert,
                     slackMessage    |-> slackMessage,
                     pre             |-> IF key \in DOMAIN states
                                         THEN <<states[key]>> ELSE <<>>,
                     observedBefore  |-> observed[key],
                     sentSeenBefore  |-> sentSeen[key],
                     calls           |-> r.calls,
                     err             |-> r.err ]
        /\ observed' = [observed EXCEPT ![key] = severity]
        /\ sentSeen' = [sentSeen EXCEPT ![key] =
                           IF key \in DOMAIN r.states
                           THEN r.states[key].LastSent ELSE @]
        /\ UNCHANGED <<policies, now, concVars, lockVars, whaleVars, oracleVars, schedVars, extraVars>>

\* The caller takes the result of the call
Return ==
    /\ last # NoCall
    /\ last' = NoCall
    /\ UNCHANGED <<states, policies, now, observed, sentSeen, concVars, lockVars, whaleVars, oracleVars, schedVars, extraVars>>

ClearAll ==
    /\ last = NoCall
    /\ states # <<>>
    /\ states' = <<>>
    /\ UNCHANGED <<policies, now, last, observed, sentSeen, concVars, lockVars, whaleVars, oracleVars, schedVars, extraVars>>

\* The clock moves on between calls
AdvanceClock ==
    /\ last = NoCall
    /\ \E i \in 1..MaxInstant :
          /\ Instants[i] > now
          /\ now' = Instants[i]
    /\ UNCHANGED <<states, policies, last, observed, sentSeen, concVars, lockVars, whaleVars, oracleVars, schedVars, extraVars>>

Next ==
    \/ \E j \in Jobs, m \in Metrics, p \in Policies : RegisterPolicy(j, m, p)
    \/ \E k \in Keys, s \in Severities, v \in Values, d \in DetailsTexts,
          b \in BOOLEAN, sl \in SlackTexts, f \in SinkFailures :
          Observe(k, s, v, d, b, sl, sinkOKOf(f))
    \/ Return
    \/ ClearAll
    \/ AdvanceClock

Spec == Init /\ [][Next]_vars

----------------------------------------------------------------------------
(* The oracle job's stablecoin key: the manager as main sets it up for chain
   "base", with the default configuration, receiving the observations of one
   token. *)

\* DefaultConfig().Oracle.Stablecoin (percents in hundredths, MinValueChange
\* in hundredths of a percent, durations in seconds)
StablecoinConfig ==
    [ WarningThresholdPercent  |-> 100,
      CriticalThresholdPercent |-> 200,
      MinValueChangePercent    |-> 20,
      CooldownWarningMinutes   |-> 30,
      CooldownCriticalMinutes  |-> 5,
      ConsecutiveOKRequired    |-> 3,
      DynamicCooldowns         |-> << [ThresholdPercent |-> 1000, CooldownSeconds |-> 10],
                                      [ThresholdPercent |-> 500, CooldownSeconds |-> 30] >> ]

\* the policy registerOraclePolicies registers for price_deviation_stable
StablecoinPolicy ==
    [ MinValueChange        |-> StablecoinConfig.MinValueChangePercent,
      CooldownWarning       |-> StablecoinConfig.CooldownWarningMinutes * 60,
      CooldownCritical      |-> StablecoinConfig.CooldownCriticalMinutes * 60,
      DynamicCooldowns      |-> [i \in 1..Len(StablecoinConfig.DynamicCooldowns) |->
                                    DynamicCooldown(StablecoinConfig.DynamicCooldowns[i].ThresholdPercent,
                                                    StablecoinConfig.DynamicCooldowns[i].CooldownSeconds)],
      ReminderInterval      |-> 0,
      TriggerThreshold      |-> 0,
      ConsecutiveOKRequired |-> StablecoinConfig.ConsecutiveOKRequired ]

\* classifyDeviation, for a stablecoin
classifyDeviation(deviation) ==
    IF deviation >= StablecoinConfig.CriticalThresholdPercent
    THEN SeverityCritical
    ELSE IF deviation >= StablecoinConfig.WarningThresholdPercent
    THEN SeverityWarning
    ELSE SeverityOK

\* deviations (percent, in hundredths) and the instants they are observed at
DepegValues == {50, 150, 230, 235, 310}

DepegInstants == <<0, 60, 6 * 60>>

InitDepeg ==
    /\ states = <<>>
    /\ policies = [k \in {policyKey("oracle_base", "price_deviation_stable")} |-> StablecoinPolicy]
    /\ now = DepegInstants[1]
    /\ last = NoCall
    /\ observed = [k \in Keys |-> "none"]
    /\ sentSeen = [k \in Keys |-> 0]
    /\ procs = [c \in Callers |-> Idle]
    /\ sendLog = <<>>
    /\ base = <<>>
    /\ round = 0
    /\ mu = Unlocked
    /\ previousWhales = {}
    /\ absentRuns = [a \in WhaleAddresses |-> 0]
    /\ runs = 0
    /\ monitor = NewMonitor
    /\ workers = <<>>
    /\ sched = NoSched
    /\ snapshot = NoSnapshot
    /\ aggregate = NoAggregate
    /\ fanout = NoFanout

\* processTokenResult: the observation of the token's deviation
ObserveDepeg(deviation) ==
    Observe(ScenarioKey, classifyDeviation(deviation), deviation, "details", TRUE, "slack", AllSinksOK)

DepegClock ==
    /\ last = NoCall
    /\ \E i \in 1..Len(DepegInstants) :
          /\ DepegInstants[i] > now
          /\ now' = DepegInstants[i]
    /\ UNCHANGED <<states, policies, last, observed, sentSeen, concVars, lockVars, whaleVars, oracleVars, schedVars, extraVars>>

NextDepeg ==
    \/ \E v \in DepegValues : ObserveDepeg(v)
    \/ Return
    \/ DepegClock

SpecDepeg == InitDepeg /\ [][NextDepeg]_vars

----------------------------------------------------------------------------
(* The concentration job's whale check (workers/concentration.go).  A run of
   the check is one step: the job runs in one goroutine and nothing else
   observes its keys.  The borrow checks of the same run use other keys. *)

\* number of runs of the job
MaxWhaleRuns == 3

\* ConcentrationJob.Interval
WhaleInterval == 10 * 60

\* the policy NewConcentrationJob registers for whale_supply
WhalePolicy ==
    [ MinValueChange        |-> 100,
      CooldownWarning       |-> 60 * 60,
      CooldownCritical      |-> 30 * 60,
      DynamicCooldowns      |-> <<>>,
      ReminderInterval      |-> 0,
      TriggerThreshold      |-> 1000,
      ConsecutiveOKRequired |-> 2 ]

\* the shares of the supply (percent, in hundredths) the query may return:
\* its WHERE clause keeps the rows of 10% and more
WhalePercents == {1500, 2500}

whaleKey(addr) == AlertKey("concentration", addr, "whale_supply")

\* the switch on whale.Percentage
whaleSeverity(percentage) ==
    IF percentage >= 2000 THEN SeverityCritical
    ELSE IF percentage >= 1000 THEN SeverityWarning
    ELSE SeverityOK

\* the result sets of the query: the addresses returned, each with its share
WhaleResults ==
    UNION {[present -> WhalePercents] : present \in SUBSET WhaleAddresses}

\* the outcome of the Business send of the alert of each address
WhaleSinkOutcomes == [WhaleAddresses -> {{}, {"Business"}}]

\* the Observe calls of a loop over addresses, one call per address of todo;
\* the error each call returns is logged or dropped
RECURSIVE observeEach(_, _, _, _, _)
observeEach(st, pol, t, todo, obsOf) ==
    IF todo = {}
    THEN st
    ELSE LET a == CHOOSE x \in todo : TRUE
             o == obsOf[a]
             r == observeResult(st, pol, t, whaleKey(a), o.severity, o.value, o.details, o.isBusinessAlert, "", o.sinkOK)
         IN  observeEach(r.states, pol, t, todo \ {a}, obsOf)

\* checkWhalePositions, the query having succeeded: the states map and
\* previousWhales as the call leaves them
checkWhalePositions(st, pol, t, previous, rows, failing) ==
    LET currentWhales == DOMAIN rows
        rowObs == [a \in currentWhales |->
                      [ severity |-> whaleSeverity(rows[a]), value |-> rows[a],
                        details |-> "details", isBusinessAlert |-> TRUE,
                        sinkOK |-> sinkOKOf(failing[a]) ]]
        st1 == observeEach(st, pol, t, currentWhales, rowObs)
        dropped == {a \in previous : a \notin currentWhales}
        okObs == [a \in dropped |->
                     [ severity |-> SeverityOK, value |-> 0,
                       details |-> "", isBusinessAlert |-> FALSE,
                       sinkOK |-> sinkOKOf(failing[a]) ]]
        st2 == observeEach(st1, pol, t, dropped, okObs)
    IN  [states |-> st2, previousWhales |-> currentWhales]

\* the state after NewManager and NewConcentrationJob
InitWhale ==
    /\ states = <<>>
    /\ policies = [k \in {policyKey("concentration", "whale_supply")} |-> WhalePolicy]
    /\ now = 0
    /\ last = NoCall
    /\ observed = [k \in Keys |-> "none"]
    /\ sentSeen = [k \in Keys |-> 0]
    /\ procs = [c \in Callers |-> Idle]
    /\ sendLog = <<>>
    /\ base = <<>>
    /\ round = 0
    /\ mu = Unlocked
    /\ previousWhales = {}
    /\ absentRuns = [a \in WhaleAddresses |-> 0]
    /\ runs = 0
    /\ monitor = NewMonitor
    /\ workers = <<>>
    /\ sched = NoSched
    /\ snapshot = NoSnapshot
    /\ aggregate = NoAggregate
    /\ fanout = NoFanout

\* ConcentrationJob.Run, the whale query returning rows
RunWhaleCheck(rows, failing) ==
    LET r == checkWhalePositions(states, policies, now, previousWhales, rows, failing)
    IN  /\ runs < MaxWhaleRuns
        /\ states' = r.states
        /\ previousWhales' = r.previousWhales
        /\ absentRuns' = [a \in WhaleAddresses |->
                             IF a \in DOMAIN rows THEN 0 ELSE absentRuns[a] + 1]
        /\ runs' = runs + 1
        /\ now' = now + WhaleInterval
        /\ UNCHANGED <<policies, seqVars, concVars, lockVars, oracleVars, schedVars, extraVars>>

\* ConcentrationJob.Run, the whale query failing: the check returns at once
RunWhaleQueryFails ==
    /\ runs < MaxWhaleRuns
    /\ runs' = runs + 1
    /\ now' = now + WhaleInterval
    /\ UNCHANGED <<states, policies, previousWhales, absentRuns, seqVars, concVars, lockVars, oracleVars, schedVars, extraVars>>

NextWhale ==
    \/ \E rows \in WhaleResults, failing \in WhaleSinkOutcomes : RunWhaleCheck(rows, failing)
    \/ RunWhaleQueryFails

SpecWhale == InitWhale /\ [][NextWhale]_vars

----------------------------------------------------------------------------
(* The oracle monitor of one chain (workers/oracle.go).  A run of the
   monitor is one step: the monitor runs in one goroutine, the token checks
   it fans out have all delivered their result before it calls Observe, and
   its Observe calls follow one another.  lastSuccess and consecutiveErr
   reach only the text of the details of the system_health observation, and
   are left out. *)

\* number of ticks of the monitor
MaxOracleTicks == 6

\* OracleMonitor.Interval, with DefaultConfig().Oracle.CheckIntervalSeconds
OracleInterval == 120

\* DefaultConfig().Oracle.Volatile
VolatileConfig ==
    [ WarningThresholdPercent  |-> 300,
      CriticalThresholdPercent |-> 500,
      MinValueChangePercent    |-> 100,
      CooldownWarningMinutes   |-> 30,
      CooldownCriticalMinutes  |-> 5,
      ConsecutiveOKRequired    |-> 1,
      DynamicCooldowns         |-> << [ThresholdPercent |-> 2000, CooldownSeconds |-> 10],
                                      [ThresholdPercent |-> 1000, CooldownSeconds |-> 30] >> ]

\* the policy registerOraclePolicies registers for price_deviation_volatile
VolatilePolicy ==
    [ MinValueChange        |-> VolatileConfig.MinValueChangePercent,
      CooldownWarning       |-> VolatileConfig.CooldownWarningMinutes * 60,
      CooldownCritical      |-> VolatileConfig.CooldownCriticalMinutes * 60,
      DynamicCooldowns      |-> [i \in 1..Len(VolatileConfig.DynamicCooldowns) |->
                                    DynamicCooldown(VolatileConfig.DynamicCooldowns[i].ThresholdPercent,
                                                    VolatileConfig.DynamicCooldowns[i].CooldownSeconds)],
      ReminderInterval      |-> 0,
      TriggerThreshold      |-> 0,
      ConsecutiveOKRequired |-> VolatileConfig.ConsecutiveOKRequired ]

\* the policy registerOraclePolicies registers for system_health
SystemHealthPolicy ==
    [ MinValueChange        |-> 1000,
      CooldownWarning       |-> 15 * 60,
      CooldownCritical      |-> 5 * 60,
      DynamicCooldowns      |-> <<>>,
      ReminderInterval      |-> 30 * 60,
      TriggerThreshold      |-> 0,
      ConsecutiveOKRequired |-> 1 ]

\* the policies map after registerOraclePolicies
registerOraclePolicies(chainID) ==
    LET jobName == "oracle_" \o chainID
    IN  [k \in {policyKey(jobName, "price_deviation_stable"),
                policyKey(jobName, "price_deviation_volatile"),
                policyKey(jobName, "system_health")} |->
            IF k = policyKey(jobName, "price_deviation_stable") THEN StablecoinPolicy
            ELSE IF k = policyKey(jobName, "price_deviation_volatile") THEN VolatilePolicy
            ELSE SystemHealthPolicy]

\* the fields of TokenMeta that the run of the monitor reads
TokenMeta(tableName, isStablecoin) == [TableName |-> tableName, IsStablecoin |-> isStablecoin]

\* ChainConfig.Tokens of the monitored chain: symbol -> TokenMeta.  Two
\* tokens, one of each class, stand for the catalogue of the chain.
OracleTokens ==
    [s \in {"usdc", "weth"} |->
        IF s = "usdc" THEN TokenMeta("USDC", TRUE) ELSE TokenMeta("WETH", FALSE)]

\* a tokenResult: failed stands for err != nil
tokenResult(symbol, failed, deviation) == [symbol |-> symbol, failed |-> failed, deviation |-> deviation]

\* the deviations (percent, in hundredths) a token check may compute
OracleDeviations == {250}

\* what checkAllTokens may return for the tokens of a chain: one result per
\* token, in the order the sub-workers delivered them
resultsOf(tokens) ==
    { r \in [1..Cardinality(DOMAIN tokens) ->
                { tokenResult(s, f, IF f THEN 0 ELSE d) :
                    s \in DOMAIN tokens, f \in BOOLEAN, d \in OracleDeviations }] :
        \A i, j \in DOMAIN r : i # j => r[i].symbol # r[j].symbol }

\* the sinks that fail during a run
OracleSinkFailures == {{}}

\* the arguments of one Observe call
Observation(key, severity, value, details, isBusinessAlert, slackMessage) ==
    [ key |-> key, severity |-> severity, value |-> value, details |-> details,
      isBusinessAlert |-> isBusinessAlert, slackMessage |-> slackMessage ]

\* OracleMonitor.classifyDeviation
classifyDeviationOf(deviation, meta) ==
    IF meta.IsStablecoin
    THEN classifyDeviation(deviation)
    ELSE IF deviation >= VolatileConfig.CriticalThresholdPercent
    THEN SeverityCritical
    ELSE IF deviation >= VolatileConfig.WarningThresholdPercent
    THEN SeverityWarning
    ELSE SeverityOK

getMetricName(meta) ==
    IF meta.IsStablecoin THEN "price_deviation_stable" ELSE "price_deviation_volatile"

\* (mutant) a failed token check observed as Critical
observeTokenErrorCritical(job, symbol) ==
    Observation(AlertKey(job, symbol, "token_error"), SeverityCritical, 100, "details", FALSE, "")

\* observeTokenError: the Observe call for a token whose check failed
observeTokenError(job, symbol) ==
    Observation(AlertKey(job, symbol, "token_error"), SeverityWarning, 100, "details", FALSE, "")

\* processTokenResult: the Observe call for a token whose check succeeded
processTokenResult(job, tokens, result) ==
    LET meta == tokens[result.symbol]
    IN  Observation(AlertKey(job, meta.TableName, getMetricName(meta)),
                    classifyDeviationOf(result.deviation, meta), result.deviation,
                    "details", TRUE, "slack")

\* (mutant) the thresholds exclusive
healthSeverityAbove(errors, tokenCount) ==
    IF errors * 100 > 50 * tokenCount THEN SeverityCritical
    ELSE IF errors * 100 > 30 * tokenCount THEN SeverityWarning
    ELSE SeverityOK

\* the severity updateSystemHealth gives to errors failed tokens of tokenCount
healthSeverity(errors, tokenCount) ==
    IF errors * 100 >= 50 * tokenCount THEN SeverityCritical
    ELSE IF errors * 100 >= 30 * tokenCount THEN SeverityWarning
    ELSE SeverityOK

\* updateSystemHealth: the Observe calls it makes (none for a chain without
\* tokens); the value is the error rate in percent
updateSystemHealth(job, errors, tokenCount) ==
    IF tokenCount = 0
    THEN <<>>
    ELSE << Observation(AlertKey(job, "system", "system_health"),
                        healthSeverity(errors, tokenCount),
                        (errors * 10000) \div tokenCount, "details", FALSE, "") >>

\* a loop over the results that ends at the first failed one
RECURSIVE tokenObservationsUntilError(_, _, _, _)
tokenObservationsUntilError(job, tokens, results, i) ==
    IF i > Len(results)
    THEN <<>>
    ELSE IF results[i].failed
    THEN << observeTokenError(job, results[i].symbol) >>
    ELSE << processTokenResult(job, tokens, results[i]) >>
            \o tokenObservationsUntilError(job, tokens, results, i + 1)

\* the loop of Run over the results: the Observe calls it makes, in order
RECURSIVE tokenObservations(_, _, _, _)
tokenObservations(job, tokens, results, i) ==
    IF i > Len(results)
    THEN <<>>
    ELSE << IF results[i].failed
            THEN observeTokenError(job, results[i].symbol)
            ELSE processTokenResult(job, tokens, results[i]) >>
            \o tokenObservations(job, tokens, results, i + 1)

errorCount(results) == Cardinality({i \in DOMAIN results : results[i].failed})

\* a breaker that counts a run of which half of the tokens failed
circuitBreakerAtHalf(failures, errors, tokenCount) ==
    IF errors * 2 >= tokenCount THEN failures + 1 ELSE 0

\* the update of the failures counter at the end of Run: errorRate > 0.5
circuitBreaker(failures, errors, tokenCount) ==
    IF errors * 2 > tokenCount THEN failures + 1 ELSE 0

\* OracleMonitor.Run: the counter as the run leaves it, the tokens it
\* checked, the Observe calls it made and the error it returns.  results is
\* what the token checks of the tick return; an open circuit does not make
\* them.
oracleRun(job, tokens, failures, results) ==
    IF failures >= 5
    THEN [ failures |-> failures, checked |-> {}, emitted |-> <<>>,
           err |-> "circuit breaker open" ]
    ELSE LET errors == errorCount(results)
             tokenCount == Cardinality(DOMAIN tokens)
         IN  [ failures |-> IF tokenCount = 0
                            THEN failures
                            ELSE circuitBreaker(failures, errors, tokenCount),
               checked  |-> DOMAIN tokens,
               emitted  |-> tokenObservations(job, tokens, results, 1)
                               \o updateSystemHealth(job, errors, tokenCount),
               err      |-> IF tokenCount # 0 /\ errors * 2 > tokenCount
                            THEN "high error rate"
                            ELSE "nil" ]

\* the Observe calls of a run, one after the other; the error each returns
\* is dropped
RECURSIVE observeAll(_, _, _, _, _, _)
observeAll(st, pol, t, obs, i, sinkOK) ==
    IF i > Len(obs)
    THEN st
    ELSE LET o == obs[i]
             r == observeResult(st, pol, t, o.key, o.severity, o.value, o.details,
                                o.isBusinessAlert, o.slackMessage, sinkOK)
         IN  observeAll(r.states, pol, t, obs, i + 1, sinkOK)

\* the Observe calls of a run: for each, whether its key had a stored state,
\* the sink calls it made and whether it returned an error
RECURSIVE sendsOf(_, _, _, _, _, _)
sendsOf(st, pol, t, obs, i, sinkOK) ==
    IF i > Len(obs)
    THEN <<>>
    ELSE LET o == obs[i]
             r == observeResult(st, pol, t, o.key, o.severity, o.value, o.details,
                                o.isBusinessAlert, o.slackMessage, sinkOK)
         IN  << [had |-> o.key \in DOMAIN st, calls |-> r.calls, err |-> r.err] >>
             \o sendsOf(r.states, pol, t, obs, i + 1, sinkOK)

\* the state after NewManager and NewOracleMonitor for chain "base"
InitOracle ==
    /\ states = <<>>
    /\ policies = registerOraclePolicies("base")
    /\ now = 0
    /\ last = NoCall
    /\ observed = [k \in Keys |-> "none"]
    /\ sentSeen = [k \in Keys |-> 0]
    /\ procs = [c \in Callers |-> Idle]
    /\ sendLog = <<>>
    /\ base = <<>>
    /\ round = 0
    /\ mu = Unlocked
    /\ previousWhales = {}
    /\ absentRuns = [a \in WhaleAddresses |-> 0]
    /\ runs = 0
    /\ monitor = NewMonitor
    /\ workers = <<>>
    /\ sched = NoSched
    /\ snapshot = NoSnapshot
    /\ aggregate = NoAggregate
    /\ fanout = NoFanout

\* a tick of the worker of a monitor of the chain with the given tokens: one
\* call of OracleMonitor.Run, the next tick coming interval later
MonitorTick(tokens, results, failing, interval, maxTicks) ==
    LET r == oracleRun("oracle_base", tokens, monitor.failures, results)
    IN  /\ monitor.ticks < maxTicks
        /\ monitor' = [ failures |-> r.failures,
                        ticks    |-> monitor.ticks + 1,
                        lastRun  |-> [ ran |-> TRUE, failuresBefore |-> monitor.failures,
                                       results |-> results, checked |-> r.checked,
                                       emitted |-> r.emitted, err |-> r.err,
                                       at |-> now,
                                       sent |-> sendsOf(states, policies, now, r.emitted, 1,
                                                        sinkOKOf(failing)) ] ]
        /\ states' = observeAll(states, policies, now, r.emitted, 1, sinkOKOf(failing))
        /\ now' = now + interval
        /\ UNCHANGED <<policies, seqVars, concVars, lockVars, whaleVars, schedVars, extraVars>>

\* a tick of the monitor's worker: one call of OracleMonitor.Run
OracleTick(results, failing) ==
    MonitorTick(OracleTokens, results, failing, OracleInterval, MaxOracleTicks)

NextOracle ==
    \E results \in resultsOf(OracleTokens), failing \in OracleSinkFailures :
        OracleTick(results, failing)

SpecOracle == InitOracle /\ [][NextOracle]_vars

----------------------------------------------------------------------------
(* The scheduler (Worker, src/unnamed/part_002) and main's start and
   shutdown of it (src/alerts/telegram.go).  Start spawns one goroutine per
   registered job, runJob; the position of each is a step of the model.  A
   job is opaque to the scheduler: of its Run the model keeps the beginning,
   the Observe calls it makes on its key, and its return, which may never
   come.  The ticker of a worker delivers its ticks on a channel of capacity
   one. *)

\* number of ticks the tickers of the workers fire, all together
MaxTicks == 3

\* the goroutines of a Start
WorkerIds == {1, 2}

\* a job that main registers: its Name, whether it is a Closer, and the
\* entity and metric of the key it observes
Job(name, closer, entity, metric) == [name |-> name, closer |-> closer, entity |-> entity, metric |-> metric]

\* NewOracleMonitor for a chain of ENABLED_CHAINS (no Close method)
OracleJob(chainID) == Job("oracle_" \o chainID, FALSE, "system", "system_health")

\* NewConcentrationJob (Close closes its database handle)
ConcentrationJob == Job("concentration", TRUE, "0xA", "whale_supply")

\* GetChainsByEnv and the loop of main over its result: one oracle monitor
\* per id of the list, in order
oracleJobs(enabledChains) == [i \in DOMAIN enabledChains |-> OracleJob(enabledChains[i])]

\* Worker.jobs as main may leave it before Start: ENABLED_CHAINS is "base"
\* with the concentration job registered by setupDatabaseMonitors, or it is
\* "base,base" with no database
Registrations ==
    { oracleJobs(<<"base">>) \o <<ConcentrationJob>>,
      oracleJobs(<<"base", "base">>) }

\* the key a job passes to Observe: its Job field is the job's Name
jobKey(job) == AlertKey(job.name, job.entity, job.metric)

\* the outcomes of job.Run as executeJob sees them
RunOutcomes == {"ok", "error", "panic"}

\* a goroutine that Start has not spawned yet
NoWorker ==
    [ pc |-> "unstarted", ticker |-> FALSE, pending |-> 0, fired |-> 0, taken |-> 0,
      runs |-> 0, active |-> 0, lastOutcome |-> "none" ]

\* a Start that calls runJob without go: the second job waits for the
\* worker of the first to exit
spawnInline(ws) ==
    [w \in DOMAIN ws |-> IF w = 1 THEN [ws[w] EXCEPT !.pc = "spawned"] ELSE ws[w]]

\* Worker.Start: go w.runJob(ctx, job) for each job
spawn(ws) == [w \in DOMAIN ws |-> [ws[w] EXCEPT !.pc = "spawned"]]

\* a Wait that does not wait
waitReturnsAtOnce(wg) == TRUE

\* Worker.Wait returns when the counter of Worker.wg is zero
waitReturns(wg) == wg = 0

\* a ticker that queues the ticks its receiver has not taken
tickerSendQueued(pending) == pending + 1

\* time.Ticker: the tick is sent on a channel of capacity one without
\* blocking, and dropped when the channel is full
tickerSend(pending) == 1

\* a worker that a panic of Run ends
afterExecuteJobPanicExits(outcome) == IF outcome = "panic" THEN "exited" ELSE "select"

\* executeJob returns to runJob whatever Run did (an error is logged, a panic
\* recovered and logged): the worker is at its select
afterExecuteJob(outcome) == "select"

\* the call w.executeJob(ctx, job), up to the call of job.Run
executeJob(worker) ==
    [worker EXCEPT !.pc = "running", !.runs = @ + 1, !.active = @ + 1]

\* the state after main has registered its jobs
InitSched ==
    /\ states = <<>>
    /\ policies = <<>>
    /\ now = 0
    /\ last = NoCall
    /\ observed = [k \in Keys |-> "none"]
    /\ sentSeen = [k \in Keys |-> 0]
    /\ procs = [c \in Callers |-> Idle]
    /\ sendLog = <<>>
    /\ base = <<>>
    /\ round = 0
    /\ mu = Unlocked
    /\ previousWhales = {}
    /\ absentRuns = [a \in WhaleAddresses |-> 0]
    /\ runs = 0
    /\ monitor = NewMonitor
    /\ snapshot = NoSnapshot
    /\ aggregate = NoAggregate
    /\ fanout = NoFanout
    /\ \E jobs \in Registrations :
          /\ sched = [ jobs |-> jobs, mainpc |-> "start", cancelled |-> FALSE, wg |-> 0,
                       handles |-> {w \in DOMAIN jobs : jobs[w].closer}, ticks |-> 0 ]
          /\ workers = [w \in DOMAIN jobs |-> NoWorker]

schedRest == <<states, policies, now, seqVars, concVars, lockVars, whaleVars, oracleVars, extraVars>>

\* main: worker.Start(ctx)
Start ==
    /\ sched.mainpc = "start"
    /\ sched' = [sched EXCEPT !.mainpc = "serving", !.wg = Len(sched.jobs)]
    /\ workers' = spawn(workers)
    /\ UNCHANGED schedRest

\* main: a SIGINT or SIGTERM arrives; cancel(), then the call of worker.Wait
Shutdown ==
    /\ sched.mainpc = "serving"
    /\ sched' = [sched EXCEPT !.mainpc = "waiting", !.cancelled = TRUE]
    /\ UNCHANGED <<workers, schedRest>>

\* main: worker.Wait returns; main logs the active incidents and returns
\* (nothing calls Worker.Close)
Wait ==
    /\ sched.mainpc = "waiting"
    /\ waitReturns(sched.wg)
    /\ sched' = [sched EXCEPT !.mainpc = "stopped"]
    /\ UNCHANGED <<workers, schedRest>>

\* runJob: the executeJob before the loop
FirstRun(w) ==
    /\ workers[w].pc = "spawned"
    /\ workers' = [workers EXCEPT ![w] = executeJob(@)]
    /\ UNCHANGED <<sched, schedRest>>

\* runJob: the select takes the case <-ticker.C
TickRun(w) ==
    /\ workers[w].pc = "select"
    /\ workers[w].pending >= 1
    /\ workers' = [workers EXCEPT ![w] =
                      executeJob([@ EXCEPT !.pending = @ - 1, !.taken = @ + 1])]
    /\ UNCHANGED <<sched, schedRest>>

\* job.Run: the job calls Observe on its key
JobObserve(w) ==
    /\ workers[w].pc = "running"
    /\ workers' = [workers EXCEPT ![w].pc = "observing"]
    /\ UNCHANGED <<sched, schedRest>>

\* job.Run: the Observe call returns
JobObserveReturn(w) ==
    /\ workers[w].pc = "observing"
    /\ workers' = [workers EXCEPT ![w].pc = "running"]
    /\ UNCHANGED <<sched, schedRest>>

\* job.Run returns or panics, and executeJob returns; after the first
\* executeJob, runJob creates the ticker
RunReturn(w, outcome) ==
    /\ workers[w].pc = "running"
    /\ workers' = [workers EXCEPT ![w] =
                      [@ EXCEPT !.pc = afterExecuteJob(outcome),
                                !.active = @ - 1,
                                !.lastOutcome = outcome,
                                !.ticker = TRUE]]
    /\ UNCHANGED <<sched, schedRest>>

\* the ticker of the worker fires
TickerFire(w) ==
    /\ workers[w].ticker
    /\ sched.ticks < MaxTicks
    /\ workers' = [workers EXCEPT ![w] =
                      [@ EXCEPT !.fired = @ + 1, !.pending = tickerSend(@)]]
    /\ sched' = [sched EXCEPT !.ticks = @ + 1]
    /\ UNCHANGED schedRest

\* runJob: the select takes the case <-ctx.Done(); the deferred ticker.Stop
\* and wg.Done run
WorkerExit(w) ==
    /\ workers[w].pc = "select"
    /\ sched.cancelled
    /\ workers' = [workers EXCEPT ![w] = [@ EXCEPT !.pc = "exited", !.ticker = FALSE]]
    /\ sched' = [sched EXCEPT !.wg = @ - 1]
    /\ UNCHANGED schedRest

WorkerStep(w) ==
    \/ FirstRun(w)
    \/ TickRun(w)
    \/ JobObserve(w)
    \/ JobObserveReturn(w)
    \/ \E outcome \in RunOutcomes : RunReturn(w, outcome)
    \/ TickerFire(w)
    \/ WorkerExit(w)

NextSched ==
    \/ Start
    \/ Shutdown
    \/ Wait
    \/ \E w \in WorkerIds : WorkerStep(w)

SpecSched == InitSched /\ [][NextSched]_vars

\* the Go runtime runs a spawned goroutine and a goroutine whose blocking
\* call can return; a select of which the case <-ctx.Done() is ready again
\* and again takes it in the end (it chooses among its ready cases at
\* random).  Nothing makes job.Run return.
FairSched ==
    /\ WF_vars(Wait)
    /\ \A w \in WorkerIds : WF_vars(FirstRun(w)) /\ SF_vars(WorkerExit(w))

SpecSchedFair == InitSched /\ [][NextSched]_vars /\ FairSched

----------------------------------------------------------------------------
(* The manager under concurrent callers.  Observe is three steps: the
   evaluation (one critical section of Manager.mu), the send (no lock held)
   and the state update (a second critical section).  The calls come in
   groups: a group begins when no caller is inside Observe.  The sink calls
   of one alert are logged together. *)

\* number of groups of concurrent calls
MaxRounds == 2

\* number of instants of the list Instants that the clock may take while
\* callers run concurrently
MaxConcInstant == 2

ConcValues == {1500, 2500}

\* the sinks that fail during one send of a concurrent caller
ConcSinkFailures == {{}, {"Business"}, {"Developer"}}

\* the Slack text a producer of business alerts passes
slackTextOf(isBusinessAlert) == IF isBusinessAlert THEN "slack" ELSE ""

\* Manager.Observe up to the end of evaluateObservation
ObserveEvaluate(c, key, severity, value, details, isBusinessAlert, slackMessage) ==
    LET ev == evaluateObservation(states, policies, now, key, severity, value, details, isBusinessAlert, slackMessage)
        action == ev.action
        noAction == ~action.shouldSend /\ action.newState = <<>> /\ ~action.deleteState
    IN  /\ procs[c].pc = "idle"
        /\ round > 0
        /\ states' = ev.states
        /\ procs' = [procs EXCEPT ![c] =
                [ pc              |-> IF noAction THEN "done"
                                      ELSE IF action.shouldSend THEN "send"
                                      ELSE "update",
                  key             |-> key,
                  severity        |-> severity,
                  value           |-> value,
                  details         |-> details,
                  isBusinessAlert |-> isBusinessAlert,
                  slackMessage    |-> slackMessage,
                  t               |-> now,
                  action          |-> action,
                  err             |-> FALSE ]]
        /\ UNCHANGED <<policies, now, sendLog, base, round, seqVars, lockVars, whaleVars, oracleVars, schedVars, extraVars>>

\* Manager.Observe: the send, outside the lock
ObserveSend(c, sinkOK) ==
    LET action == procs[c].action
        sent   == sendAlert(action.message, action.isBusinessAlert, action.slackMessage, sinkOK)
    IN  /\ procs[c].pc = "send"
        /\ sendLog' = sendLog \o sent.calls
        /\ procs' = [procs EXCEPT ![c].pc = IF sent.err THEN "done" ELSE "update",
                                  ![c].err = sent.err]
        /\ UNCHANGED <<states, policies, now, base, round, seqVars, lockVars, whaleVars, oracleVars, schedVars, extraVars>>

\* Manager.Observe: the state update after the send
ObserveUpdate(c) ==
    /\ procs[c].pc = "update"
    /\ states' = persist(states, procs[c].key, procs[c].action)
    /\ procs' = [procs EXCEPT ![c].pc = "done"]
    /\ UNCHANGED <<policies, now, sendLog, base, round, seqVars, lockVars, whaleVars, oracleVars, schedVars, extraVars>>

\* no caller is inside Observe
Quiescent == \A c \in Callers : procs[c].pc \in {"idle", "done"}

\* A new group of calls begins
BeginCalls ==
    /\ Quiescent
    /\ round < MaxRounds
    /\ round' = round + 1
    /\ base' = states
    /\ sendLog' = <<>>
    /\ procs' = [c \in Callers |-> Idle]
    /\ UNCHANGED <<states, policies, now, seqVars, lockVars, whaleVars, oracleVars, schedVars, extraVars>>

\* The clock moves on, at any point of the calls
ConcAdvanceClock ==
    /\ round > 0
    /\ \E i \in 1..MaxConcInstant :
          /\ Instants[i] > now
          /\ now' = Instants[i]
    /\ UNCHANGED <<states, policies, concVars, seqVars, lockVars, whaleVars, oracleVars, schedVars, extraVars>>

NextConc ==
    \/ \E c \in Callers, k \in Keys, s \in Severities, v \in ConcValues, d \in DetailsTexts, b \in BOOLEAN :
          ObserveEvaluate(c, k, s, v, d, b, slackTextOf(b))
    \/ \E c \in Callers, f \in ConcSinkFailures : ObserveSend(c, sinkOKOf(f))
    \/ \E c \in Callers : ObserveUpdate(c)
    \/ BeginCalls
    \/ ConcAdvanceClock

SpecConc == Init /\ [][NextConc]_vars

----------------------------------------------------------------------------
(* The manager's lock.  SpecConc above takes each critical section of
   Manager.mu as one step; here taking the lock and the work done under it
   are separate steps, so that the lock is seen while it is held.  A caller
   makes one call per group: Observe, RegisterPolicy or GetActiveIncidents.
   A send that does not return is a caller that stays at "send". *)

\* number of groups of calls
MaxLockRounds == 1

LockKeys == {ScenarioKey, AlertKey("oracle_base", "DAI", "price_deviation_stable")}

LockValues == {1500}

\* (mutant) the lock of the evaluation kept until Observe returns
keepLocked(lock, c) == lock

\* m.mu.Unlock() by the writer c
releaseOnReturn(lock, c) == [lock EXCEPT !.writer = "none"]

\* m.mu.Lock() can be taken
canLock == mu.writer = "none" /\ mu.readers = {}

\* m.mu.RLock() can be taken
canRLock == mu.writer = "none"

\* some other caller is inside a send
sendInProgress(c) == \E d \in Callers \ {c} : procs[d].pc = "send"

\* evaluateObservation: m.mu.Lock()
LockObserveBegin(c, key, severity, value, details, isBusinessAlert, slackMessage) ==
    /\ procs[c].pc = "idle"
    /\ round > 0
    /\ canLock
    /\ mu' = [mu EXCEPT !.writer = c]
    /\ procs' = [procs EXCEPT ![c] =
            [ pc              |-> "evaluate",
              op              |-> "Observe",
              key             |-> key,
              severity        |-> severity,
              value           |-> value,
              details         |-> details,
              isBusinessAlert |-> isBusinessAlert,
              slackMessage    |-> slackMessage,
              t               |-> now,
              action          |-> EmptyAction,
              err             |-> FALSE,
              duringSend      |-> sendInProgress(c) ]]
    /\ UNCHANGED <<states, policies, now, sendLog, base, round, seqVars, whaleVars, oracleVars, schedVars, extraVars>>

\* evaluateObservation under the lock, and its deferred m.mu.Unlock()
LockObserveEvaluate(c) ==
    LET p  == procs[c]
        ev == evaluateObservation(states, policies, now, p.key, p.severity, p.value, p.details, p.isBusinessAlert, p.slackMessage)
        action == ev.action
        noAction == ~action.shouldSend /\ action.newState = <<>> /\ ~action.deleteState
    IN  /\ p.pc = "evaluate"
        /\ states' = ev.states
        /\ mu' = releaseOnReturn(mu, c)
        /\ procs' = [procs EXCEPT ![c].pc = IF noAction THEN "done"
                                            ELSE IF action.shouldSend THEN "send"
                                            ELSE "update",
                                  ![c].t = now,
                                  ![c].action = action]
        /\ UNCHANGED <<policies, now, sendLog, base, round, seqVars, whaleVars, oracleVars, schedVars, extraVars>>

\* Observe after the send: m.mu.Lock()
LockObserveUpdateBegin(c) ==
    /\ procs[c].pc = "update"
    /\ canLock
    /\ mu' = [mu EXCEPT !.writer = c]
    /\ procs' = [procs EXCEPT ![c].pc = "updating"]
    /\ UNCHANGED <<states, policies, now, sendLog, base, round, seqVars, whaleVars, oracleVars, schedVars, extraVars>>

\* Observe after the send: the state update and m.mu.Unlock()
LockObserveUpdate(c) ==
    /\ procs[c].pc = "updating"
    /\ states' = persist(states, procs[c].key, procs[c].action)
    /\ mu' = [mu EXCEPT !.writer = "none"]
    /\ procs' = [procs EXCEPT ![c].pc = "done"]
    /\ UNCHANGED <<policies, now, sendLog, base, round, seqVars, whaleVars, oracleVars, schedVars, extraVars>>

\* RegisterPolicy: m.mu.Lock()
LockRegisterBegin(c, job, metric, policy) ==
    /\ procs[c].pc = "idle"
    /\ round > 0
    /\ canLock
    /\ mu' = [mu EXCEPT !.writer = c]
    /\ procs' = [procs EXCEPT ![c] =
            [ pc |-> "registering", op |-> "RegisterPolicy",
              job |-> job, metric |-> metric, policy |-> policy,
              err |-> FALSE, duringSend |-> sendInProgress(c) ]]
    /\ UNCHANGED <<states, policies, now, sendLog, base, round, seqVars, whaleVars, oracleVars, schedVars, extraVars>>

\* RegisterPolicy: the write and the deferred m.mu.Unlock()
LockRegister(c) ==
    LET p == procs[c]
    IN  /\ p.pc = "registering"
        /\ policies' = [k \in DOMAIN policies \cup {policyKey(p.job, p.metric)} |->
                           IF k = policyKey(p.job, p.metric) THEN p.policy ELSE policies[k]]
        /\ mu' = [mu EXCEPT !.writer = "none"]
        /\ procs' = [procs EXCEPT ![c].pc = "done"]
        /\ UNCHANGED <<states, now, sendLog, base, round, seqVars, whaleVars, oracleVars, schedVars, extraVars>>

\* GetActiveIncidents: m.mu.RLock()
LockSnapshotBegin(c) ==
    /\ procs[c].pc = "idle"
    /\ round > 0
    /\ canRLock
    /\ mu' = [mu EXCEPT !.readers = @ \cup {c}]
    /\ procs' = [procs EXCEPT ![c] =
            [ pc |-> "reading", op |-> "GetActiveIncidents",
              result |-> <<>>, err |-> FALSE, duringSend |-> sendInProgress(c) ]]
    /\ UNCHANGED <<states, policies, now, sendLog, base, round, seqVars, whaleVars, oracleVars, schedVars, extraVars>>

\* GetActiveIncidents: the copy and the deferred m.mu.RUnlock()
LockSnapshot(c) ==
    /\ procs[c].pc = "reading"
    /\ mu' = [mu EXCEPT !.readers = @ \ {c}]
    /\ procs' = [procs EXCEPT ![c].pc = "done",
                              ![c].result = GetActiveIncidents(states)]
    /\ UNCHANGED <<states, policies, now, sendLog, base, round, seqVars, whaleVars, oracleVars, schedVars, extraVars>>

\* A new group of calls begins
LockBeginCalls ==
    /\ Quiescent
    /\ round < MaxLockRounds
    /\ round' = round + 1
    /\ base' = states
    /\ sendLog' = <<>>
    /\ procs' = [c \in Callers |-> Idle]
    /\ UNCHANGED <<states, policies, now, seqVars, lockVars, whaleVars, oracleVars, schedVars, extraVars>>

\* the steps of caller c
CallerStep(c) ==
    \/ \E k \in LockKeys, s \in Severities, v \in LockValues, d \in DetailsTexts, b \in BOOLEAN :
          LockObserveBegin(c, k, s, v, d, b, slackTextOf(b))
    \/ LockObserveEvaluate(c)
    \/ \E f \in ConcSinkFailures : ObserveSend(c, sinkOKOf(f))
    \/ LockObserveUpdateBegin(c)
    \/ LockObserveUpdate(c)
    \/ \E j \in Jobs, m \in Metrics : LockRegisterBegin(c, j, m, FixedPolicy)
    \/ LockRegister(c)
    \/ LockSnapshotBegin(c)
    \/ LockSnapshot(c)

NextLock ==
    \/ \E c \in Callers : CallerStep(c)
    \/ LockBeginCalls

SpecLock == Init /\ [][NextLock]_vars

----------------------------------------------------------------------------
(* Reading the record of the call just made *)

Called == last.op = "Observe"

\* the key had a stored state when the call was made
HadState == last.pre # <<>>

Pre == last.pre[1]

HasState == last.key \in DOMAIN states

Post == states[last.key]

PolicyInForce == policyFor(policies, last.key)

SinksCalled == [i \in 1..Len(last.calls) |-> last.calls[i].sink]

\* The sinks an alert goes to: Business, Slack if there is a Slack text and
\* Developer for a business alert, Developer alone otherwise
Route(isBusinessAlert, slackMessage) ==
    IF isBusinessAlert
    THEN <<"Business">>
         \o (IF slackMessage # "" THEN <<"Slack">> ELSE <<>>)
         \o <<"Developer">>
    ELSE <<"Developer">>

\* One alert was sent on the given route: every sink of the route was called
\* once, in order, unless the first (primary) send failed
SentOneAlert(route) ==
    /\ SinksCalled = (IF last.err THEN <<route[1]>> ELSE route)
    /\ last.err = ~last.calls[1].ok

SameSeverity == Called /\ HadState /\ last.severity = Pre.Severity

\* A reminder is due, in the words of the specification
ClaimReminderDue ==
    /\ last.severity = SeverityCritical
    /\ PolicyInForce.ReminderInterval > 0
    /\ now - Pre.FirstTriggered >= PolicyInForce.ReminderInterval
    /\ now - Pre.LastSent >= PolicyInForce.ReminderInterval

\* The cooldown of the first pair, in list order, whose threshold <= value;
\* the severity default when there is none
RECURSIVE ClaimCooldownFrom(_, _, _, _)
ClaimCooldownFrom(policy, severity, value, i) ==
    IF i > Len(policy.DynamicCooldowns)
    THEN IF severity = SeverityCritical
         THEN policy.CooldownCritical
         ELSE policy.CooldownWarning
    ELSE IF policy.DynamicCooldowns[i].Threshold <= value
         THEN policy.DynamicCooldowns[i].Cooldown
         ELSE ClaimCooldownFrom(policy, severity, value, i + 1)

ClaimCooldown == ClaimCooldownFrom(PolicyInForce, last.severity, last.value, 1)

\* |value - LastValue| / |LastValue| * 100 >= MinValueChange, a change from 0
\* to a non-zero value counting as 100%
ClaimSignificant ==
    \/ /\ Pre.LastValue # 0
       /\ Abs(last.value - Pre.LastValue) * 10000
             >= PolicyInForce.MinValueChange * Abs(Pre.LastValue)
    \/ /\ Pre.LastValue = 0
       /\ last.value # 0
       /\ 100 * 100 >= PolicyInForce.MinValueChange

----------------------------------------------------------------------------
(* Scenarios: a sequence of Observe calls on one key of a fresh manager,
   every send succeeding; obs[i].t is the clock at call i *)

Obs(t, severity, value, isBusinessAlert, slackMessage) ==
    [ t |-> t, severity |-> severity, value |-> value,
      isBusinessAlert |-> isBusinessAlert, slackMessage |-> slackMessage ]

RECURSIVE runFrom(_, _, _, _)
runFrom(st, pol, obs, i) ==
    IF i > Len(obs)
    THEN <<>>
    ELSE LET r == observeResult(st, pol, obs[i].t, ScenarioKey, obs[i].severity,
                                obs[i].value, "details", obs[i].isBusinessAlert,
                                obs[i].slackMessage, AllSinksOK)
         IN  <<[calls |-> r.calls, states |-> r.states]>>
             \o runFrom(r.states, pol, obs, i + 1)

\* the results of the calls of a scenario under a registered policy
runScenario(policy, obs) ==
    runFrom(<<>>,
            [k \in {policyKey(ScenarioKey.Job, ScenarioKey.Metric)} |-> policy],
            obs, 1)

\* the number of calls of a scenario that sent an alert
alertCount(results) == Cardinality({i \in 1..Len(results) : results[i].calls # <<>>})

----------------------------------------------------------------------------
(* Claims about one Observe call (specification Spec) *)

\* The alert message of the call just made, as the sinks received it
AlarmMessage ==
    [emoji |-> "alarm", title |-> getAlertTitle(last.key.Metric),
     details |-> last.details]

CheckMessage ==
    [emoji |-> "check", title |-> getAlertTitle(last.key.Metric),
     details |-> last.details]

\* every sink called got msg, the Slack sink the Slack text
Carried(msg) ==
    \A i \in 1..Len(last.calls) :
        last.calls[i].msg = (IF last.calls[i].sink = "Slack"
                             THEN last.slackMessage ELSE msg)

\* C1: a Critical observation on a key whose stored severity is Warning sends
\* exactly one alert, routed per isBusinessAlert, and (the primary send
\* succeeding) leaves the stored severity Critical, whatever the time since
\* LastSent, the cooldowns and the change of the value.
C1_EscalationPrecedence ==
    (Called /\ HadState /\ Pre.Severity = SeverityWarning
            /\ last.severity = SeverityCritical)
    => /\ SentOneAlert(Route(last.isBusinessAlert, last.slackMessage))
       /\ Carried(AlarmMessage)
       /\ ~last.err => /\ HasState
                       /\ Post.Severity = SeverityCritical
                       /\ Post.LastSent = now
                       /\ Post.LastValue = last.value

\* an escalation inside the cooldown, with an unchanged value
C1_Witness ==
    /\ Called /\ HadState /\ Pre.Severity = SeverityWarning
    /\ last.severity = SeverityCritical
    /\ now - Pre.LastSent < ClaimCooldown
    /\ last.value = Pre.LastValue
    /\ ~last.err
    /\ Post.Severity = SeverityCritical

\* C2: a Warning observation on a key whose stored severity is Critical is
\* delivered to the Developer sink only, never to Business or Slack, even
\* when isBusinessAlert is true and slackMessage is non-empty.
C2_DeescalationRouting ==
    (Called /\ HadState /\ Pre.Severity = SeverityCritical
            /\ last.severity = SeverityWarning)
    => /\ SinksCalled = <<"Developer">>
       /\ Carried(CheckMessage)

C2_Witness ==
    /\ Called /\ HadState /\ Pre.Severity = SeverityCritical
    /\ last.severity = SeverityWarning
    /\ last.isBusinessAlert /\ last.slackMessage # ""
    /\ ~last.err
    /\ Post.Severity = SeverityWarning

\* C3: an Observe with severity OK calls no sink, in any state of the key and
\* under any policy.
C3_SilentRecovery ==
    (Called /\ last.severity = SeverityOK)
    => last.calls = <<>> /\ ~last.err

\* an OK observation that clears an incident
C3_Witness ==
    /\ Called /\ last.severity = SeverityOK
    /\ HadState /\ ~HasState
    /\ last.isBusinessAlert /\ last.slackMessage # ""

\* C4: under a policy requiring 2 consecutive OKs, a non-OK observation
\* leaves the incident in place with the OK count back at 0, a first OK
\* after a non-OK observation does not clear it, and a call deletes the
\* entry only when it is an OK observation that follows an OK observation.
C4_Hysteresis ==
    (Called /\ HadState /\ PolicyInForce.ConsecutiveOKRequired = 2)
    => /\ last.severity # SeverityOK
            => HasState /\ Post.ConsecutiveOK = 0
       /\ (last.severity = SeverityOK /\ last.observedBefore # SeverityOK)
            => HasState /\ Post.ConsecutiveOK = 1
       /\ ~HasState
            => last.severity = SeverityOK /\ last.observedBefore = SeverityOK

\* a Warning incident with one OK counted receives a non-OK observation
C4_Witness ==
    /\ Called /\ HadState /\ PolicyInForce.ConsecutiveOKRequired = 2
    /\ Pre.Severity = SeverityWarning
    /\ Pre.ConsecutiveOK = 1
    /\ last.observedBefore = SeverityOK
    /\ last.severity # SeverityOK
    /\ HasState /\ Post.ConsecutiveOK = 0

\* with CooldownCritical = 10 min and no dynamic cooldowns, two Critical
\* observations 5 min apart send one alert, whatever their values
C5_Example ==
    \A v1 \in Values \cup {10000}, v2 \in Values \cup {10000, 11000},
       b \in BOOLEAN :
        alertCount(runScenario(FixedPolicy,
            << Obs(0, SeverityCritical, v1, b, ""),
               Obs(5 * 60, SeverityCritical, v2, b, "") >>)) = 1

\* C5: a same-severity observation made less than the applicable cooldown
\* after LastSent, no reminder being due, sends nothing.
C5_CooldownHonoured ==
    /\ (SameSeverity /\ ~ClaimReminderDue /\ now - Pre.LastSent < ClaimCooldown)
       => last.calls = <<>> /\ ~last.err
    /\ C5_Example

\* a same-severity observation inside the cooldown, its value changed
C5_Witness ==
    /\ SameSeverity /\ ~ClaimReminderDue
    /\ now - Pre.LastSent < ClaimCooldown
    /\ now > Pre.LastSent
    /\ Pre.LastSent > Pre.FirstTriggered
    /\ ClaimSignificant
    /\ last.calls = <<>>

\* MinValueChange = 5, CooldownCritical = 10 min
ExamplePolicy == [FixedPolicy EXCEPT !.MinValueChange = 500]

\* two Critical observations 15 min apart: values 100 and 102 send one alert,
\* values 100 and 110 send two
C6_Example ==
    /\ alertCount(runScenario(ExamplePolicy,
            << Obs(0, SeverityCritical, 10000, TRUE, ""),
               Obs(15 * 60, SeverityCritical, 10200, TRUE, "") >>)) = 1
    /\ alertCount(runScenario(ExamplePolicy,
            << Obs(0, SeverityCritical, 10000, TRUE, ""),
               Obs(15 * 60, SeverityCritical, 11000, TRUE, "") >>)) = 2

\* C6: a same-severity observation made after the cooldown has elapsed, no
\* reminder being due, is sent iff the change of the value since LastValue is
\* at least MinValueChange percent (0 to non-zero counting as 100%).
C6_MinChangeGate ==
    /\ (SameSeverity /\ ~ClaimReminderDue /\ now - Pre.LastSent >= ClaimCooldown
            /\ (Pre.LastValue # 0 \/ last.value # 0))
       => (last.calls # <<>> <=> ClaimSignificant)
    /\ C6_Example

\* both outcomes of the gate are met, and the change from 0
C6_Witness ==
    /\ SameSeverity /\ ~ClaimReminderDue
    /\ now - Pre.LastSent >= ClaimCooldown
    /\ Pre.LastValue # 0 /\ last.value # Pre.LastValue
    /\ ~ClaimSignificant
    /\ last.calls = <<>>

\* DynamicCooldowns = [(20, 10 s), (10, 30 s)], default 300 s: value 25 uses
\* 10 s, value 15 uses 30 s, value 5 uses 300 s
C7_Example ==
    /\ calculateCooldown(DynamicPolicy, SeverityCritical, 2500) = 10
    /\ calculateCooldown(DynamicPolicy, SeverityCritical, 1500) = 30
    /\ calculateCooldown(DynamicPolicy, SeverityCritical, 500) = 300

\* C7: the cooldown applied to a same-severity observation, Warning or
\* Critical, is that of the first dynamic pair whose threshold <= value, and
\* the severity default when no pair matches: a significant change is sent
\* iff that cooldown has elapsed.
C7_DynamicCooldown ==
    /\ (SameSeverity /\ ~ClaimReminderDue /\ ClaimSignificant)
       => (last.calls # <<>> <=> now - Pre.LastSent >= ClaimCooldown)
    /\ C7_Example

\* a Warning update sent after the 10 s of the first pair, before the 30 s of
\* the second and the 300 s of the default
C7_Witness ==
    /\ SameSeverity /\ last.severity = SeverityWarning
    /\ PolicyInForce.DynamicCooldowns # <<>>
    /\ ClaimCooldown = 10
    /\ now - Pre.LastSent >= 10
    /\ now - Pre.LastSent < 30
    /\ last.calls # <<>>

\* C8: with ReminderInterval R > 0, a Critical observation on a Critical
\* incident made when now - FirstTriggered >= R and now - LastSent >= R is
\* sent, even with an unchanged value, to the Developer sink only; on a
\* Warning incident, or with R = 0, a same-severity observation is sent only
\* as an update, when it passes the cooldown and min-change gates.
C8_ReminderDiscipline ==
    /\ (SameSeverity /\ ClaimReminderDue)
       => /\ SinksCalled = <<"Developer">>
          /\ Carried(AlarmMessage)
          /\ ~last.err => HasState /\ Post.LastSent = now
    /\ (SameSeverity /\ last.calls # <<>>
            /\ (last.severity = SeverityWarning
                \/ PolicyInForce.ReminderInterval = 0))
       => /\ now - Pre.LastSent >= ClaimCooldown
          /\ ClaimSignificant
          /\ SentOneAlert(Route(last.isBusinessAlert
                                    /\ last.severity = SeverityCritical,
                                last.slackMessage))

\* a reminder for an unchanged value of a business alert
C8_Witness ==
    /\ SameSeverity /\ ClaimReminderDue
    /\ last.value = Pre.LastValue
    /\ last.isBusinessAlert /\ last.slackMessage # ""
    /\ SinksCalled = <<"Developer">>
    /\ ~last.err

\* C10: the LastSent stored for a key never decreases from one stored state
\* to the next, deletion and re-creation of the entry included.
C10_MonotoneLastSent ==
    (Called /\ HasState) => Post.LastSent >= last.sentSeenBefore

\* an entry re-created after its deletion, later than its last alert
C10_Witness ==
    /\ Called /\ ~HadState /\ HasState
    /\ last.sentSeenBefore > 0
    /\ Post.LastSent > last.sentSeenBefore

\* the stored state of the key of the call just made: <<state>>, or <<>>
PostEntry == IF HasState THEN <<Post>> ELSE <<>>

\* C11: when the primary send of an observation fails, Observe returns the
\* error and the stored state of the key is afterwards identical in every
\* field to the state before the call, absence of state included.
C11_FailedSendKeepsState ==
    (Called /\ last.calls # <<>> /\ ~last.calls[1].ok)
    => last.err /\ PostEntry = last.pre

\* the primary sink of the route of the alert, as the calls show it
PrimaryCall == last.calls[1]

\* C12: Observe returns an error iff the primary send of the chosen route
\* fails (Business for a business-routed alert, Developer otherwise); a failure
\* of the Slack send or of the Developer mirror is not returned and does not
\* prevent the state update; an observation that sends nothing succeeds.
C12_PrimaryErrorOnly ==
    Called
    => /\ last.err <=> (last.calls # <<>> /\ ~PrimaryCall.ok)
       /\ last.calls # <<>>
            => /\ PrimaryCall.sink \in {"Business", "Developer"}
               /\ Len(last.calls) > 1 => PrimaryCall.sink = "Business"
               /\ \A i \in 2..Len(last.calls) :
                      last.calls[i].sink \in {"Slack", "Developer"}
       /\ (last.calls # <<>> /\ PrimaryCall.ok)
            => /\ HasState
               /\ Post.Severity = last.severity
               /\ Post.LastSent = now
               /\ Post.LastValue = last.value

\* a business alert whose Slack send fails: no error, the state stored
C12_Witness ==
    /\ Called /\ Len(last.calls) = 3
    /\ PrimaryCall.ok /\ ~last.calls[2].ok
    /\ ~last.err
    /\ HasState /\ Post.LastSent = now /\ Post.LastValue = last.value
    /\ HadState /\ Post # Pre

\* the call just made opens an incident or escalates one
NewOrEscalation ==
    /\ Called /\ last.severity # SeverityOK
    /\ ~HadState \/ severityLevel(last.severity) > severityLevel(Pre.Severity)

\* Warning, Critical, Warning on a business key: Business+Slack+Developer,
\* Business+Slack+Developer, Developer only
C13_Example ==
    LET r == runScenario(FixedPolicy,
                << Obs(0, SeverityWarning, 1500, TRUE, "slack"),
                   Obs(10, SeverityCritical, 2500, TRUE, "slack"),
                   Obs(30, SeverityWarning, 1500, TRUE, "slack") >>)
        sinksOf(i) == [j \in 1..Len(r[i].calls) |-> r[i].calls[j].sink]
    IN  /\ sinksOf(1) = <<"Business", "Slack", "Developer">>
        /\ sinksOf(2) = <<"Business", "Slack", "Developer">>
        /\ sinksOf(3) = <<"Developer">>

\* C13: a new-incident alert and an escalation alert are routed alike: with
\* isBusinessAlert to Business, to Slack iff slackMessage is non-empty, and to
\* Developer as a mirror; without it to Developer only.
C13_NewAndEscalationRouting ==
    /\ NewOrEscalation
       => /\ SentOneAlert(Route(last.isBusinessAlert, last.slackMessage))
          /\ Carried(AlarmMessage)
    /\ C13_Example

\* an escalation of a business alert with a Slack text, every send succeeding
C13_Witness ==
    /\ NewOrEscalation /\ HadState
    /\ last.isBusinessAlert /\ last.slackMessage # ""
    /\ SinksCalled = <<"Business", "Slack", "Developer">>
    /\ \A i \in 1..3 : last.calls[i].ok

\* C14: a same-severity update that passes the cooldown and min-change gates
\* goes to Business (and Slack) only if isBusinessAlert is true and the
\* severity is Critical; a Warning update goes to Developer only.
C14_UpdateRouting ==
    (SameSeverity /\ ~ClaimReminderDue /\ last.calls # <<>>)
    => /\ SentOneAlert(Route(last.isBusinessAlert /\ last.severity = SeverityCritical,
                             last.slackMessage))
       /\ Carried(AlarmMessage)
       /\ last.severity = SeverityWarning => SinksCalled = <<"Developer">>

\* a Warning update of a business alert with a Slack text
C14_Witness ==
    /\ SameSeverity /\ ~ClaimReminderDue
    /\ last.severity = SeverityWarning
    /\ last.isBusinessAlert /\ last.slackMessage # ""
    /\ SinksCalled = <<"Developer">>
    /\ ~last.err

\* ConsecutiveOKRequired = 2
TwoOKPolicy == [FixedPolicy EXCEPT !.ConsecutiveOKRequired = 2]

\* Warning, OK, OK: one send in total, the entry kept by the first OK and
\* gone from the snapshot after the second
C15_Example ==
    LET r == runScenario(TwoOKPolicy,
                << Obs(0, SeverityWarning, 1500, TRUE, "slack"),
                   Obs(10, SeverityOK, 0, FALSE, ""),
                   Obs(30, SeverityOK, 0, FALSE, "") >>)
    IN  /\ alertCount(r) = 1
        /\ r[1].calls # <<>>
        /\ ScenarioKey \in DOMAIN GetActiveIncidents(r[2].states)
        /\ r[2].states[ScenarioKey].ConsecutiveOK = 1
        /\ GetActiveIncidents(r[3].states) = <<>>

\* C15: an OK observation on a key without state creates nothing; on a key
\* with a state it increments ConsecutiveOK, and deletes the entry exactly when
\* the incremented count has reached ConsecutiveOKRequired, after which the
\* snapshot of active incidents does not contain the key.
C15_OKObservation ==
    /\ (Called /\ last.severity = SeverityOK)
       => IF ~HadState
          THEN ~HasState
          ELSE IF Pre.ConsecutiveOK + 1 >= PolicyInForce.ConsecutiveOKRequired
          THEN /\ ~HasState
               /\ last.key \notin DOMAIN GetActiveIncidents(states)
          ELSE /\ HasState
               /\ Post = [Pre EXCEPT !.ConsecutiveOK = @ + 1]
               /\ last.key \in DOMAIN GetActiveIncidents(states)
    /\ C15_Example

\* the third OK clears an incident under a policy that requires three
C15_Witness ==
    /\ Called /\ last.severity = SeverityOK
    /\ HadState /\ Pre.ConsecutiveOK = 2
    /\ PolicyInForce.ConsecutiveOKRequired = 3
    /\ ~HasState

\* C16: every entry of the state map has severity Warning or Critical, never
\* OK, and an entry comes to exist for a key only by a non-OK observation of
\* the key that was sent successfully.
C16_NoStoredOK ==
    /\ \A k \in DOMAIN states :
          states[k].Severity \in {SeverityWarning, SeverityCritical}
    /\ DOMAIN GetActiveIncidents(states) = DOMAIN states
    /\ (Called /\ ~HadState /\ HasState)
       => /\ last.severity = Post.Severity
          /\ last.calls # <<>> /\ PrimaryCall.ok /\ ~last.err

\* an entry re-created by a sent Warning after its incident was cleared
C16_Witness ==
    /\ Called /\ ~HadState /\ HasState
    /\ last.observedBefore = SeverityOK
    /\ Post.Severity = SeverityWarning
    /\ last.calls # <<>> /\ ~last.err

\* C17: FirstTriggered is set to the current instant, equal to LastSent, when
\* a key goes from no state to a non-OK state, is left unchanged by every later
\* escalation, de-escalation, reminder and update of the incident, and is at
\* most LastSent in every stored state.
C17_FirstTriggered ==
    /\ \A k \in DOMAIN states : states[k].FirstTriggered <= states[k].LastSent
    /\ (Called /\ ~HadState /\ HasState)
       => Post.FirstTriggered = now /\ Post.LastSent = now
    /\ (Called /\ HadState /\ HasState)
       => Post.FirstTriggered = Pre.FirstTriggered

\* an escalation sent later than the start of its incident
C17_Witness ==
    /\ Called /\ HadState /\ HasState
    /\ severityLevel(last.severity) > severityLevel(Pre.Severity)
    /\ last.calls # <<>> /\ ~last.err
    /\ now > Pre.FirstTriggered
    /\ Post.LastSent = now
    /\ Post.FirstTriggered = Pre.FirstTriggered

----------------------------------------------------------------------------
(* Claims about the stablecoin key (specification SpecDepeg) *)

\* the incident as the Critical 2.3 observed at t = 0 left it
DepegIncident ==
    /\ Called /\ HadState
    /\ last.severity = SeverityCritical
    /\ Pre.Severity = SeverityCritical
    /\ Pre.FirstTriggered = 0 /\ Pre.LastSent = 0
    /\ Pre.LastValue = 230

\* the first two steps: Critical 2.3 at t = 0 sends one new-incident alert to
\* Business, Slack and Developer; Critical 2.3 at 1 min sends nothing
DepegOpening ==
    /\ (Called /\ ~HadState /\ last.severity = SeverityCritical
            /\ now = 0 /\ last.value = 230)
       => /\ SinksCalled = <<"Business", "Slack", "Developer">>
          /\ Carried(AlarmMessage)
    /\ (DepegIncident /\ now = 60 /\ last.value = 230) => last.calls = <<>>

\* Critical 3.1 at 6 min sends an update
DepegLargeChange ==
    (DepegIncident /\ now = 6 * 60 /\ last.value = 310)
    => SinksCalled = <<"Business", "Slack", "Developer">>

\* C19: under the stablecoin policy, Critical 2.3 at t = 0 sends one
\* new-incident alert to Business, Slack and Developer; Critical 2.3 at 1 min
\* sends nothing; Critical 2.35 at 6 min sends nothing; Critical 3.1 at 6 min
\* sends an update.
C19_DepegScenario ==
    /\ DepegOpening
    /\ (DepegIncident /\ now = 6 * 60 /\ last.value = 235) => last.calls = <<>>
    /\ DepegLargeChange

\* C19 (amended): as above, but Critical 2.35 at 6 min sends an update to
\* Business, Slack and Developer: the cooldown of 5 min has elapsed and the
\* change, 2.17% of 2.3, is not below MinValueChange = 0.2.
C19_DepegAmended ==
    /\ DepegOpening
    /\ (DepegIncident /\ now = 6 * 60 /\ last.value = 235)
       => /\ SinksCalled = <<"Business", "Slack", "Developer">>
          /\ Carried(AlarmMessage)
          /\ Post.LastValue = 235 /\ Post.LastSent = now
    /\ DepegLargeChange

\* the observation of 2.35 at 6 min
C19_Witness ==
    /\ DepegIncident /\ now = 6 * 60 /\ last.value = 235
    /\ last.sentSeenBefore = 0
    /\ last.calls # <<>>

----------------------------------------------------------------------------
(* Claims about the whale check (specification SpecWhale) *)

\* C20: an address alerted as a whale and absent from the result set of every
\* later run receives an OK observation in each of those runs until
\* ConsecutiveOKRequired (2) of them have arrived, and its state is then
\* deleted: a state that is still stored has counted one OK per run of absence,
\* and fewer than 2 such runs have gone by.
C20_DroppedWhaleCleared ==
    \A a \in WhaleAddresses :
        whaleKey(a) \in DOMAIN states
        => /\ states[whaleKey(a)].ConsecutiveOK = absentRuns[a]
           /\ absentRuns[a] < WhalePolicy.ConsecutiveOKRequired

----------------------------------------------------------------------------
(* Claims about the lock (specification SpecLock) *)

\* caller c can begin each of the calls: an Observe for a key other than key,
\* GetActiveIncidents and RegisterPolicy
CanBeginCalls(c, key) ==
    /\ \A k \in LockKeys \ {key} :
          ENABLED LockObserveBegin(c, k, SeverityWarning, 1500, "details", FALSE, "")
    /\ ENABLED LockSnapshotBegin(c)
    /\ ENABLED LockRegisterBegin(c, "oracle_base", "price_deviation_stable", FixedPolicy)

\* C18: the manager never holds its lock while a send is in progress: while
\* one Observe is in a send, however long, the sender holds the lock neither
\* as writer nor as reader, and another caller can begin an Observe for a
\* different key, GetActiveIncidents and RegisterPolicy, and can take every
\* step of the call it has begun, to its end.
C18_NoLockAcrossSend ==
    \A c \in Callers :
        procs[c].pc = "send"
        => /\ mu.writer # c /\ c \notin mu.readers
           /\ \A d \in Callers \ {c} :
                 /\ procs[d].pc = "idle" => CanBeginCalls(d, procs[c].key)
                 /\ procs[d].pc \notin {"idle", "done"} => ENABLED CallerStep(d)

\* the calls caller d began and completed while caller c was in its send
CompletedDuringSend(c, d, op) ==
    /\ procs[c].pc = "send"
    /\ procs[d].pc = "done"
    /\ procs[d].op = op
    /\ procs[d].duringSend

\* an Observe for another key sent its alert and stored its state while the
\* first Observe was still in its send
C18_Witness ==
    \E c \in Callers, d \in Callers :
        /\ CompletedDuringSend(c, d, "Observe")
        /\ procs[d].key # procs[c].key
        /\ procs[d].action.shouldSend
        /\ procs[d].key \in DOMAIN states
        /\ procs[c].key \notin DOMAIN states

----------------------------------------------------------------------------
(* Claims about concurrent calls (specification SpecConc) *)

\* the sinks called and what each received, in order
sinkSeq(calls) == [i \in 1..Len(calls) |-> [sink |-> calls[i].sink, msg |-> calls[i].msg]]

\* the stored state of a key: <<state>>, or <<>> when there is none
entryOf(st, key) == IF key \in DOMAIN st THEN <<st[key]>> ELSE <<>>

\* the call of caller p made alone on the states map st, at the clock reading
\* the caller took, every send succeeding
callAlone(st, p) ==
    observeResult(st, policies, p.t, p.key, p.severity, p.value, p.details, p.isBusinessAlert, p.slackMessage, AllSinksOK)

\* the calls of c1 then c2, one after the other, from the states map the
\* group of calls began with
serialOutcome(c1, c2) ==
    LET r1 == callAlone(base, procs[c1])
        r2 == callAlone(r1.states, procs[c2])
    IN  [sends |-> sinkSeq(r1.calls \o r2.calls), states |-> r2.states]

\* both callers have returned from calls for the same key, no send failed
BothReturned ==
    /\ \A c \in Callers : procs[c].pc = "done" /\ ~procs[c].err
    /\ procs["a"].key = procs["b"].key
    /\ \A i \in 1..Len(sendLog) : sendLog[i].ok

\* C9: two concurrent Observe calls for the same key produce the sequence of
\* sends, and leave the stored state of the key, of one of the two serial
\* executions of the calls.
C9_Linearizable ==
    BothReturned
    => \E order \in {<<"a", "b">>, <<"b", "a">>} :
          LET serial == serialOutcome(order[1], order[2])
          IN  /\ sinkSeq(sendLog) = serial.sends
              /\ entryOf(states, procs["a"].key) = entryOf(serial.states, procs["a"].key)

----------------------------------------------------------------------------
(* Claims about the oracle monitor (specification SpecOracle) *)

\* the monitor has run; LastRun is its latest run
OracleRan == monitor.lastRun.ran

LastRun == monitor.lastRun

\* a chain of ten tokens, and a run of it in which six token checks fail
ExampleSymbols == <<"t1", "t2", "t3", "t4", "t5", "t6", "t7", "t8", "t9", "t10">>

ExampleTokens ==
    [s \in {ExampleSymbols[i] : i \in DOMAIN ExampleSymbols} |-> TokenMeta(s, s \in {"t1", "t2"})]

ExampleResults(failing) ==
    [i \in DOMAIN ExampleSymbols |->
        tokenResult(ExampleSymbols[i], i \in failing, IF i \in failing THEN 0 ELSE 250)]

\* the Observe calls of a run for the metrics of the set metrics
emittedFor(emitted, metrics) == {i \in DOMAIN emitted : emitted[i].key.Metric \in metrics}

PriceMetrics == {"price_deviation_stable", "price_deviation_volatile"}

\* five of ten tokens failing is an error rate of exactly 50%
C21_Example ==
    /\ oracleRun("oracle_base", ExampleTokens, 4, ExampleResults({1, 2, 3, 4, 5})).failures = 0
    /\ oracleRun("oracle_base", ExampleTokens, 4, ExampleResults({1, 2, 3, 4, 5, 6})).failures = 5
    /\ oracleRun("oracle_base", ExampleTokens, 5, ExampleResults({})).emitted = <<>>

\* C21: a run of the oracle monitor that starts with the failure counter at
\* 5 or more checks no token and emits no observation; a run that executes
\* sets the counter to counter + 1 if strictly more than 50% of the tokens
\* failed, and to 0 otherwise (exactly 50% resets it).
C21_CircuitBreaker ==
    /\ C21_Example
    /\ OracleRan =>
          LET errors == errorCount(LastRun.results)
              tokenCount == Cardinality(DOMAIN OracleTokens)
          IN  /\ LastRun.failuresBefore >= 5
                 => LastRun.checked = {} /\ LastRun.emitted = <<>>
              /\ LastRun.failuresBefore < 5
                 => /\ LastRun.checked = DOMAIN OracleTokens
                    /\ monitor.failures = IF errors * 100 > 50 * tokenCount
                                          THEN LastRun.failuresBefore + 1
                                          ELSE 0

\* a run has found the circuit open
C21_Witness ==
    /\ OracleRan
    /\ LastRun.failuresBefore >= 5
    /\ LastRun.checked = {}

\* C22: the failure counter of the oracle monitor is reset by the first tick
\* at which at most half of the token checks fail, from any value of the
\* counter, 5 and above included: after such a tick the counter is 0 and the
\* tokens have been checked.
C22_BreakerCloses ==
    (OracleRan /\ errorCount(LastRun.results) * 2 <= Cardinality(DOMAIN OracleTokens))
    => /\ monitor.failures = 0
       /\ LastRun.checked = DOMAIN OracleTokens

\* scenario: ten tokens, six fail
C23_Example ==
    LET r == oracleRun("oracle_base", ExampleTokens, 0, ExampleResults({1, 3, 5, 7, 8, 10}))
        health == emittedFor(r.emitted, {"system_health"})
    IN  /\ Cardinality(emittedFor(r.emitted, {"token_error"})) = 6
        /\ Cardinality(emittedFor(r.emitted, PriceMetrics)) = 4
        /\ Cardinality(health) = 1
        /\ \A i \in health : r.emitted[i].severity = SeverityCritical
        /\ r.failures = 1

\* C23: an executed run over n tokens of which k fail makes exactly k
\* token_error observations (Warning, isBusinessAlert false), exactly n - k
\* price observations (isBusinessAlert true, the severity of the token's
\* classification) and exactly one system_health observation; the
\* observation of a token is that of its own result, whatever the results of
\* the other tokens.  With n = 10 and k = 6 the system_health severity is
\* Critical and the counter goes from 0 to 1.
C23_FanOut ==
    /\ C23_Example
    /\ (OracleRan /\ LastRun.checked # {}) =>
          LET res == LastRun.results
              e == LastRun.emitted
              n == Cardinality(DOMAIN OracleTokens)
              k == errorCount(res)
          IN  /\ Len(res) = n
              /\ Cardinality(emittedFor(e, {"token_error"})) = k
              /\ \A i \in emittedFor(e, {"token_error"}) :
                    e[i].severity = SeverityWarning /\ ~e[i].isBusinessAlert
              /\ Cardinality(emittedFor(e, PriceMetrics)) = n - k
              /\ \A i \in emittedFor(e, PriceMetrics) : e[i].isBusinessAlert
              /\ Cardinality(emittedFor(e, {"system_health"})) = 1
              /\ Len(e) = n + 1
              /\ \A i \in DOMAIN res :
                    \E j \in DOMAIN e :
                       e[j] = IF res[i].failed
                              THEN observeTokenError("oracle_base", res[i].symbol)
                              ELSE Observation(AlertKey("oracle_base", OracleTokens[res[i].symbol].TableName,
                                                        getMetricName(OracleTokens[res[i].symbol])),
                                               classifyDeviationOf(res[i].deviation, OracleTokens[res[i].symbol]),
                                               res[i].deviation, "details", TRUE, "slack")

\* a run in which the first result is a failure and a later one is a price
C23_Witness ==
    /\ OracleRan
    /\ LastRun.checked # {}
    /\ LastRun.results[1].failed
    /\ ~LastRun.results[2].failed
    /\ LastRun.results[2].deviation = 250
    /\ monitor.failures = 0

----------------------------------------------------------------------------
(* Claims about the scheduler (specifications SpecSched, SpecSchedFair) *)

\* the worker of job w is inside job.Run
InRun(w) == workers[w].pc \in {"running", "observing"}

Exited(w) == workers[w].pc = "exited"

\* C24: after Start, the Run of every registered job is executed once at
\* once and then once for each tick its worker receives from its own ticker;
\* a Run that returns an error or panics does not stop its worker, which
\* executes Run again when it receives a later tick: a worker stops only
\* once ctx is cancelled.
C24_RunPerTick ==
    \A w \in DOMAIN workers :
       /\ workers[w].runs = IF workers[w].pc \in {"unstarted", "spawned"}
                            THEN 0
                            ELSE 1 + workers[w].taken
       /\ Exited(w) => sched.cancelled
       /\ (workers[w].pc = "spawned") => ENABLED FirstRun(w)
       /\ (workers[w].lastOutcome \in {"error", "panic"} /\ ~InRun(w) /\ ~Exited(w))
          => /\ workers[w].pc = "select"
             /\ workers[w].pending >= 1 => ENABLED TickRun(w)

\* a worker executes Run on a tick after a Run that panicked
C24_Witness ==
    \E w \in DOMAIN workers :
       /\ workers[w].pc = "running"
       /\ workers[w].lastOutcome = "panic"
       /\ workers[w].runs = 3

\* C25: after ctx is cancelled, every worker exits, unless it stays for
\* ever inside a Run that does not return; Wait returns only when all
\* workers have exited, and returns once they have.
C25_Shutdown ==
    /\ \A w \in WorkerIds : [](sched.cancelled => (<>Exited(w) \/ <>[]InRun(w)))
    /\ [](sched.mainpc = "stopped" => \A w \in WorkerIds : Exited(w))
    /\ [](((\A w \in WorkerIds : Exited(w)) /\ sched.mainpc = "waiting") => <>(sched.mainpc = "stopped"))

\* Wait has returned, a worker having exited from its select after a run on
\* a tick
C25_Witness ==
    /\ sched.mainpc = "stopped"
    /\ \A w \in DOMAIN workers : Exited(w)
    /\ \E w \in DOMAIN workers : workers[w].runs >= 2

\* C26: when main has shut down (the signal received, ctx cancelled, Wait
\* returned), the Close of every registered job that has one has been
\* called: no database handle of a job is still open.
C26_CloseOnShutdown ==
    sched.mainpc = "stopped" => sched.handles = {}

\* C27: every registered job has its own worker after Start, and the steps
\* of a worker (its first Run, its ticker, its Run on a tick) can be taken
\* whatever the other workers are doing: a job whose Run fails, panics, is
\* slow or never returns does not hold another job back.
C27_Isolation ==
    \A w \in DOMAIN workers :
       /\ sched.mainpc # "start" => workers[w].pc # "unstarted"
       /\ workers[w].pc = "spawned" => ENABLED FirstRun(w)
       /\ (workers[w].ticker /\ sched.ticks < MaxTicks) => ENABLED TickerFire(w)
       /\ (workers[w].pc = "select" /\ workers[w].pending >= 1) => ENABLED TickRun(w)
       /\ workers[w].pc = "running" => ENABLED RunReturn(w, "ok")

\* a job is in its third Run while the first Run of the other has not
\* returned
C27_Witness ==
    \E v, w \in DOMAIN workers :
       /\ v # w
       /\ InRun(v) /\ workers[v].runs = 1
       /\ workers[w].pc = "running" /\ workers[w].runs = 3
       /\ workers[w].lastOutcome = "error"

\* C28: for each job at most one Run is in progress and at most one tick is
\* pending: a tick that fires while one is pending is dropped, so a Run that
\* overruns its interval skips ticks and builds no backlog.
C28_NoBacklog ==
    \A w \in DOMAIN workers :
       /\ workers[w].active <= 1
       /\ workers[w].pending <= 1
       /\ workers[w].runs + workers[w].pending <= 1 + workers[w].fired

\* two ticks fired during the second Run of a job: one is pending, the
\* other was dropped
C28_Witness ==
    \E w \in DOMAIN workers :
       /\ workers[w].pc = "running"
       /\ workers[w].runs = 2
       /\ workers[w].fired = 3
       /\ workers[w].pending = 1

\* C29: once ctx is cancelled, a worker at its tick test starts no further
\* Run, a tick pending or not: its next step is not the beginning of a Run.
C29_NoRunAfterCancel ==
    [][\A w \in WorkerIds :
          (sched.cancelled /\ workers[w].pc = "select") => workers'[w].pc # "running"]_vars

\* C30: no two Observe calls for the same AlertKey are in progress at the
\* same time.
C30_SerialObserve ==
    \A v, w \in DOMAIN workers :
       (v # w /\ workers[v].pc = "observing" /\ workers[w].pc = "observing")
       => jobKey(sched.jobs[v]) # jobKey(sched.jobs[w])

----------------------------------------------------------------------------
(* Claims about suppressed observations, reminders, the order of the sinks
   and failed sends (specification Spec) *)

\* the cooldown gate or the min-change gate stops the call just made
Suppressed ==
    /\ SameSeverity
    /\ ~ClaimReminderDue
    /\ now - Pre.LastSent < ClaimCooldown \/ ~ClaimSignificant

\* Warning 1000, then 1200, 1400 and 1600 at intervals longer than the
\* cooldown, MinValueChange 50%: each step is a change of less than 50% of the
\* value before it, and the third is reported, being 60% of the value sent
C36_Example ==
    LET r == runScenario(FixedPolicy,
                << Obs(0, SeverityWarning, 1000, FALSE, ""),
                   Obs(1000, SeverityWarning, 1200, FALSE, ""),
                   Obs(2000, SeverityWarning, 1400, FALSE, ""),
                   Obs(3000, SeverityWarning, 1600, FALSE, "") >>)
    IN  /\ r[1].calls # <<>>
        /\ r[2].calls = <<>> /\ r[2].states[ScenarioKey].LastValue = 1000
        /\ r[3].calls = <<>> /\ r[3].states[ScenarioKey].LastValue = 1000
        /\ r[4].calls # <<>> /\ r[4].states[ScenarioKey].LastValue = 1600
        /\ r[4].states[ScenarioKey].LastSent = 3000

\* C36: a same-severity observation that the cooldown gate or the min-change
\* gate suppresses sends nothing and leaves Severity, FirstTriggered,
\* LastSent, LastValue and LastMessage of the stored state as they were, only
\* ConsecutiveOK being reset to 0; the min-change comparison therefore stays
\* relative to the value of the last alert sent, and a slow drift is reported.
C36_SuppressedFrame ==
    /\ C36_Example
    /\ Suppressed
       => /\ last.calls = <<>>
          /\ ~last.err
          /\ HasState
          /\ Post = [Pre EXCEPT !.ConsecutiveOK = 0]

\* past the cooldown, a changed value below MinValueChange, after an OK
\* observation had been counted
C36_Witness ==
    /\ Suppressed
    /\ now - Pre.LastSent >= ClaimCooldown
    /\ last.value # Pre.LastValue
    /\ Pre.ConsecutiveOK > 0
    /\ last.calls = <<>>
    /\ Post.LastValue = Pre.LastValue /\ Post.ConsecutiveOK = 0

\* Critical 2500 of a business key, Critical 1500 when the reminder is due,
\* Critical 1500 again past the cooldown: the reminder goes to Developer
\* alone and stores 1500, and no update follows
C38_Example ==
    LET r == runScenario(DynamicPolicy,
                << Obs(0, SeverityCritical, 2500, TRUE, "slack"),
                   Obs(3600, SeverityCritical, 1500, TRUE, "slack"),
                   Obs(3700, SeverityCritical, 1500, TRUE, "slack") >>)
        sinksOf(i) == [j \in 1..Len(r[i].calls) |-> r[i].calls[j].sink]
    IN  /\ sinksOf(1) = <<"Business", "Slack", "Developer">>
        /\ sinksOf(2) = <<"Developer">>
        /\ r[2].states[ScenarioKey].LastValue = 1500
        /\ r[2].states[ScenarioKey].LastSent = 3600
        /\ sinksOf(3) = <<>>

\* C38: when a reminder is due for a Critical incident, a Critical
\* observation with isBusinessAlert = true and a change of the value of at
\* least MinValueChange is sent as a reminder to the Developer sink only,
\* neither Business nor Slack receiving it, and LastSent and LastValue become
\* those of the observation, so that the change is not sent later as a
\* business update.
C38_ReminderBeforeUpdate ==
    /\ C38_Example
    /\ (SameSeverity /\ ClaimReminderDue /\ last.isBusinessAlert /\ ClaimSignificant)
       => /\ SinksCalled = <<"Developer">>
          /\ Carried(AlarmMessage)
          /\ ~last.err => /\ HasState
                          /\ Post.LastSent = now
                          /\ Post.LastValue = last.value

\* a due reminder of a business key whose value changed by MinValueChange
C38_Witness ==
    /\ SameSeverity /\ ClaimReminderDue
    /\ last.isBusinessAlert /\ last.slackMessage # ""
    /\ ClaimSignificant /\ last.value # Pre.LastValue
    /\ now - Pre.LastSent >= ClaimCooldown
    /\ SinksCalled = <<"Developer">>
    /\ ~last.err
    /\ Post.LastValue = last.value

\* C39: in a business-routed alert the sinks are tried in the order Business,
\* Slack, Developer, Slack and the Developer mirror only after the Business
\* send returned success: when the Business send fails nothing is sent to
\* Slack or to Developer for the observation.
C39_BusinessFirst ==
    (Called /\ \E i \in 1..Len(last.calls) : last.calls[i].sink = "Business")
    => /\ PrimaryCall.sink = "Business"
       /\ PrimaryCall.ok
            => SinksCalled \in { <<"Business", "Slack", "Developer">>,
                                  <<"Business", "Developer">> }
       /\ ~PrimaryCall.ok
            => SinksCalled = <<"Business">> /\ last.err

\* a business alert with a Slack text whose Business send fails
C39_Witness ==
    /\ Called
    /\ last.isBusinessAlert /\ last.slackMessage # ""
    /\ last.calls = <<call("Business", AlarmMessage, FALSE)>>
    /\ last.err

\* a new incident whose send fails and is made again at once, then an
\* escalation whose send fails and is made again
C40_Example ==
    LET pol == [k \in {policyKey(ScenarioKey.Job, ScenarioKey.Metric)} |-> FixedPolicy]
        obs(st, t, severity, value, failing) ==
            observeResult(st, pol, t, ScenarioKey, severity, value, "details",
                          TRUE, "slack", sinkOKOf(failing))
        r1 == obs(<<>>, 0, SeverityWarning, 1500, {"Business"})
        r2 == obs(r1.states, 0, SeverityWarning, 1500, {})
        r3 == obs(r2.states, 10, SeverityCritical, 2500, {"Business"})
        r4 == obs(r3.states, 10, SeverityCritical, 2500, {})
    IN  /\ r1.err /\ r1.states = <<>>
        /\ ~r2.err /\ Len(r2.calls) = 3
        /\ r2.states[ScenarioKey].FirstTriggered = 0
        /\ r3.err /\ r3.states[ScenarioKey].Severity = SeverityWarning
        /\ r3.states[ScenarioKey].LastSent = 0
        /\ ~r4.err /\ Len(r4.calls) = 3
        /\ r4.states[ScenarioKey].Severity = SeverityCritical
        /\ r4.states[ScenarioKey].LastSent = 10

\* C40: when the primary send of a new-incident alert fails no state is
\* created for the key, so that the next non-OK observation of the key is
\* again a new incident and is sent at once, without cooldown; a failed
\* escalation leaves the stored severity Warning and is attempted again at the
\* next Critical observation.
C40_FailedSendRetried ==
    /\ C40_Example
    /\ (Called /\ ~HadState /\ last.severity # SeverityOK)
       => /\ SentOneAlert(Route(last.isBusinessAlert, last.slackMessage))
          /\ Carried(AlarmMessage)
          /\ last.err => ~HasState
    /\ (Called /\ HadState /\ Pre.Severity = SeverityWarning
               /\ last.severity = SeverityCritical)
       => /\ SentOneAlert(Route(last.isBusinessAlert, last.slackMessage))
          /\ last.err => /\ HasState
                         /\ Post.Severity = SeverityWarning
                         /\ Post.LastSent = Pre.LastSent
                         /\ Post.LastValue = Pre.LastValue

\* an escalation made again, and sent, after the Critical observation before
\* it had left the incident Warning
C40_Witness ==
    /\ Called /\ HadState
    /\ Pre.Severity = SeverityWarning
    /\ last.observedBefore = SeverityCritical
    /\ last.severity = SeverityCritical
    /\ now = Pre.LastSent
    /\ ~last.err
    /\ Post.Severity = SeverityCritical

----------------------------------------------------------------------------
(* The introspection calls of the manager: GetActiveIncidents and ClearAll
   among the Observe calls of two keys (specification SpecSnap).  The map
   GetActiveIncidents returns is held by its caller in snapshot; each of its
   entries says whether it is the stored AlertState itself (alias) or a copy
   of it, a write made through the stored pointer reaching the aliases. *)

\* number of instants of Instants that the clock may take
MaxSnapInstant == 2

\* number of Observe calls made
MaxSnapCalls == 3

SnapKeys == { AlertKey("oracle_base", "USDC", "price_deviation_stable"),
              AlertKey("oracle_base", "WETH", "price_deviation") }

SnapValues == {1500}

SnapSinkFailures == {{}, {"Developer"}}

\* (mutant) the map refers to the stored state
aliasState(v) == [alias |-> TRUE, state |-> v]

\* result[k] = *v: the entry is a copy of the stored state
copyState(v) == [alias |-> FALSE, state |-> v]

\* the map GetActiveIncidents builds
incidentsOf(st) ==
    LET result == GetActiveIncidents(st)
    IN  [k \in DOMAIN result |-> copyState(result[k])]

\* The map held, after an Observe call of key: evaluated is the states map as
\* evaluateObservation leaves it, written in place, and stored the map after
\* the state update, which replaces the pointer of the key
heldAfter(held, key, evaluated, stored) ==
    [k \in DOMAIN held |->
        IF held[k].alias /\ k = key /\ key \in DOMAIN evaluated
        THEN [ alias |-> key \in DOMAIN stored /\ stored[key] = evaluated[key],
               state |-> evaluated[key] ]
        ELSE held[k]]

\* a manager on which neither call has been made
InitialSnapshot ==
    [taken |-> FALSE, incidents |-> <<>>, at |-> <<>>, fresh |-> {}, cleared |-> FALSE,
     calls |-> 0]

InitSnap ==
    /\ states = <<>>
    /\ policies = <<>>
    /\ now = Instants[1]
    /\ last = NoCall
    /\ observed = [k \in Keys |-> "none"]
    /\ sentSeen = [k \in Keys |-> 0]
    /\ procs = [c \in Callers |-> Idle]
    /\ sendLog = <<>>
    /\ base = <<>>
    /\ round = 0
    /\ mu = Unlocked
    /\ previousWhales = {}
    /\ absentRuns = [a \in WhaleAddresses |-> 0]
    /\ runs = 0
    /\ monitor = NewMonitor
    /\ workers = <<>>
    /\ sched = NoSched
    /\ snapshot = InitialSnapshot
    /\ aggregate = NoAggregate
    /\ fanout = NoFanout

snapRest == <<policies, observed, sentSeen, concVars, lockVars, whaleVars, oracleVars, schedVars, aggregate, fanout>>

\* One whole Observe call
SnapObserve(key, severity, value, failing) ==
    LET ev == evaluateObservation(states, policies, now, key, severity, value,
                                  "details", FALSE, "")
        r  == observeResult(states, policies, now, key, severity, value,
                            "details", FALSE, "", sinkOKOf(failing))
    IN  /\ snapshot.calls < MaxSnapCalls
        /\ states' = r.states
        /\ last' = [ op              |-> "Observe",
                     key             |-> key,
                     severity        |-> severity,
                     value           |-> value,
                     details         |-> "details",
                     isBusinessAlert |-> FALSE,
                     slackMessage    |-> "",
                     pre             |-> IF key \in DOMAIN states
                                         THEN <<states[key]>> ELSE <<>>,
                     afterClear      |-> key \in snapshot.fresh,
                     calls           |-> r.calls,
                     err             |-> r.err ]
        /\ snapshot' = [snapshot EXCEPT
                           !.incidents = heldAfter(@, key, ev.states, r.states),
                           !.fresh = @ \ {key},
                           !.calls = @ + 1]
        /\ UNCHANGED <<now, snapRest>>

\* GetActiveIncidents: the caller keeps the map
SnapGetActiveIncidents ==
    /\ snapshot' = [snapshot EXCEPT !.taken = TRUE,
                                    !.incidents = incidentsOf(states),
                                    !.at = states]
    /\ last' = [op |-> "GetActiveIncidents", afterClear |-> snapshot.fresh = SnapKeys]
    /\ UNCHANGED <<states, now, snapRest>>

\* ClearAll: a new, empty states map; fresh is the set of keys not observed
\* since
SnapClearAll ==
    /\ states' = <<>>
    /\ snapshot' = [snapshot EXCEPT
                       !.incidents = [k \in DOMAIN @ |-> [@[k] EXCEPT !.alias = FALSE]],
                       !.fresh = SnapKeys,
                       !.cleared = TRUE]
    /\ last' = [op |-> "ClearAll"]
    /\ UNCHANGED <<now, snapRest>>

SnapClock ==
    /\ \E i \in 1..MaxSnapInstant :
          /\ Instants[i] > now
          /\ now' = Instants[i]
    /\ last' = NoCall
    /\ UNCHANGED <<states, snapshot, snapRest>>

NextSnap ==
    \/ \E k \in SnapKeys, s \in Severities, v \in SnapValues, f \in SnapSinkFailures :
          SnapObserve(k, s, v, f)
    \/ SnapGetActiveIncidents
    \/ SnapClearAll
    \/ SnapClock

SpecSnap == InitSnap /\ [][NextSnap]_vars

\* C35: GetActiveIncidents returns exactly the keys that have a stored state,
\* each with a copy of the state that later observations do not modify; after
\* ClearAll it returns an empty map, and the next non-OK observation of any
\* key is treated as a new incident.
C35_Introspection ==
    /\ last.op = "GetActiveIncidents"
       => /\ DOMAIN snapshot.incidents = DOMAIN states
          /\ \A k \in DOMAIN states : snapshot.incidents[k].state = states[k]
          /\ last.afterClear => snapshot.incidents = <<>>
    /\ snapshot.taken
       => /\ DOMAIN snapshot.incidents = DOMAIN snapshot.at
          /\ \A k \in DOMAIN snapshot.at :
                 snapshot.incidents[k].state = snapshot.at[k]
    /\ (Called /\ last.afterClear /\ last.severity # SeverityOK)
       => /\ ~HadState
          /\ SentOneAlert(Route(FALSE, ""))
          /\ Carried(AlarmMessage)
          /\ ~last.err => /\ HasState
                          /\ Post.Severity = last.severity
                          /\ Post.FirstTriggered = now
                          /\ Post.ConsecutiveOK = 0

\* a map taken while two incidents were open, one of which has been written
\* since, and a ClearAll after it
C35_Witness ==
    /\ snapshot.taken /\ snapshot.cleared
    /\ DOMAIN snapshot.incidents = SnapKeys
    /\ Called /\ last.afterClear /\ last.severity # SeverityOK /\ ~last.err
    /\ HasState
    /\ Post # snapshot.incidents[last.key].state

----------------------------------------------------------------------------
(* The runs of the oracle monitor of a chain of ten tokens (specification
   SpecHealth): at each tick the checks of the first k tokens fail. *)

\* number of ticks of the monitor
MaxHealthTicks == 3

\* what checkAllTokens returns when the checks of the first k tokens fail
HealthResults == { ExampleResults(1..k) : k \in 0..Len(ExampleSymbols) }

\* the state after NewManager and NewOracleMonitor for chain "base"
InitHealth == InitOracle

HealthTick(results, failing) ==
    MonitorTick(ExampleTokens, results, failing, OracleInterval, MaxHealthTicks)

NextHealth ==
    \E results \in HealthResults, failing \in OracleSinkFailures :
        HealthTick(results, failing)

SpecHealth == InitHealth /\ [][NextHealth]_vars

\* C33: each executed run of the oracle monitor over a non-empty token set
\* emits exactly one system_health observation (Entity system,
\* isBusinessAlert false), Critical when the error rate of the run, failed
\* tokens over configured tokens, is >= 50%, Warning when it is >= 30% and
\* < 50%, OK otherwise.
C33_SystemHealth ==
    (OracleRan /\ LastRun.checked # {}) =>
        LET e == LastRun.emitted
            health == emittedFor(e, {"system_health"})
            failed == errorCount(LastRun.results)
            configured == Cardinality(DOMAIN ExampleTokens)
        IN  /\ Cardinality(health) = 1
            /\ \A i \in health :
                  /\ e[i].key = AlertKey("oracle_base", "system", "system_health")
                  /\ ~e[i].isBusinessAlert
                  /\ e[i].severity =
                        IF failed * 100 >= 50 * configured THEN SeverityCritical
                        ELSE IF failed * 100 >= 30 * configured THEN SeverityWarning
                        ELSE SeverityOK

\* three of ten tokens failed, exactly 30%: Warning, on a health incident
\* that an earlier run opened
C33_Witness ==
    /\ OracleRan /\ LastRun.checked # {}
    /\ errorCount(LastRun.results) = 3
    /\ \E i \in emittedFor(LastRun.emitted, {"system_health"}) :
          /\ LastRun.emitted[i].severity = SeverityWarning
          /\ LastRun.sent[i].had

----------------------------------------------------------------------------
(* The runs of the oracle monitor at intervals on both sides of the cooldown
   and the reminder interval of the default policy (specification
   SpecTokenError) *)

\* number of ticks of the monitor
MaxErrorTicks == 3

\* the time from a run to the next: the interval of the monitor, or a
\* multiple of it when ticks are dropped
ErrorIntervals == {OracleInterval, 8 * OracleInterval, 30 * OracleInterval}

\* what checkAllTokens may return, the results in the order of the symbols
ErrorResults == {r \in resultsOf(OracleTokens) : r[1].symbol = "usdc"}

\* the sinks that fail during a run
ErrorSinkFailures == {{}, {"Developer"}}

InitTokenError == InitOracle

TokenErrorTick(results, failing, interval) ==
    MonitorTick(OracleTokens, results, failing, interval, MaxErrorTicks)

NextTokenError ==
    \E results \in ErrorResults, failing \in ErrorSinkFailures, interval \in ErrorIntervals :
        TokenErrorTick(results, failing, interval)

SpecTokenError == InitTokenError /\ [][NextTokenError]_vars

\* the stored token_error states
TokenErrorKeys(st) == {k \in DOMAIN st : k.Metric = "token_error"}

\* the token_error observations of the run just made
TokenErrorRun ==
    /\ OracleRan
    /\ \A i \in emittedFor(LastRun.emitted, {"token_error"}) :
          LET o == LastRun.emitted[i]
              s == LastRun.sent[i]
          IN  /\ o.severity = SeverityWarning
              /\ o.value = 100
              /\ policyFor(policies, o.key) = DefaultPolicy
              /\ s.had => s.calls = <<>>
              /\ (s.calls # <<>> /\ ~s.err) => o.key \in DOMAIN states

\* C37: once a token_error alert of a token has been sent successfully, no
\* later run of the oracle monitor sends another token_error alert for the
\* token and the token_error state of the token is never removed, however
\* often the token fails or succeeds afterwards: token_error has the default
\* policy, its value is always 1.0, its severity always Warning, and no OK
\* observation is made for its key.
C37_TokenErrorOnce ==
    /\ [](OracleRan => TokenErrorRun)
    /\ [][TokenErrorKeys(states) \subseteq TokenErrorKeys(states')]_vars

\* a token fails again more than the reminder interval after its alert, and
\* nothing is sent
C37_Witness ==
    /\ OracleRan
    /\ \E i \in emittedFor(LastRun.emitted, {"token_error"}) :
          /\ LastRun.sent[i].had
          /\ LastRun.sent[i].calls = <<>>
          /\ LastRun.at - states[LastRun.emitted[i].key].LastSent
                >= DefaultPolicy.ReminderInterval

----------------------------------------------------------------------------
(* The risky-count check of the health-aggregate job (specification
   SpecRisky).  A step is one call of HealthAggregateJob.Run; the three other
   checks of Run read other fields of the job and observe other keys, and
   are left out.  A percentage is an integer in hundredths. *)

\* number of runs of the job
MaxRiskyRuns == 3

Day == 24 * 60 * 60

\* HealthAggregateJob.Interval
AggregateInterval == 5 * 60

\* the time from a run to the next one the model looks at
RiskySteps == {AggregateInterval, Day}

\* metrics.RiskyPositions, as getAggregateMetrics may return it
RiskyCounts == {0, 2, 4, 5, 6}

\* the sinks that fail during a run
RiskySinkFailures == {{}, {"Business"}}

\* the policy NewHealthAggregateJob registers for risky_count_spike
RiskyPolicy ==
    [ MinValueChange        |-> 500,
      CooldownWarning       |-> 60 * 60,
      CooldownCritical      |-> 30 * 60,
      DynamicCooldowns      |-> <<>>,
      ReminderInterval      |-> 4 * 60 * 60,
      TriggerThreshold      |-> 2500,
      ConsecutiveOKRequired |-> 2 ]

RiskyKey == AlertKey("health_aggregate", "protocol", "risky_count_spike")

\* (mutant) the increase relative to max(1, baseline)
percentIncreaseOverMax(baseline, current) ==
    ((current - baseline) * 10000) \div (IF baseline > 1 THEN baseline ELSE 1)

\* percentIncrease of checkRiskyCountSpike
percentIncrease(baseline, current) ==
    IF baseline > 0
    THEN ((current - baseline) * 10000) \div baseline
    ELSE IF current > 0
    THEN 100 * 100
    ELSE 0

\* the severity checkRiskyCountSpike gives to an increase
riskySeverity(increase) ==
    IF increase >= 50 * 100 THEN SeverityCritical
    ELSE IF increase >= 25 * 100 THEN SeverityWarning
    ELSE SeverityOK

\* checkRiskyCountSpike at time t: whether the 24 h check is made, the Observe
\* call it makes, and the baseline fields as it leaves them
checkRiskyCountSpike(job, t, current) ==
    IF t - job.last24hCheckTime >= Day
    THEN LET increase == percentIncrease(job.last24hRiskyCount, current)
         IN  [ checked |-> TRUE,
               emitted |-> << Observation(RiskyKey, riskySeverity(increase), increase,
                                          "details", TRUE, "") >>,
               last24hRiskyCount |-> current,
               last24hCheckTime  |-> t ]
    ELSE [ checked |-> FALSE,
           emitted |-> <<>>,
           last24hRiskyCount |-> job.last24hRiskyCount,
           last24hCheckTime  |-> job.last24hCheckTime ]

\* the job NewHealthAggregateJob returns at time t
NewHealthAggregateJob(t) ==
    [ started |-> TRUE, last24hRiskyCount |-> 0, last24hCheckTime |-> t - Day,
      runs |-> 0, lastRun |-> NoRun ]

\* the state after NewManager and NewHealthAggregateJob
InitRisky ==
    /\ states = <<>>
    /\ policies = [k \in {policyKey("health_aggregate", "risky_count_spike")} |-> RiskyPolicy]
    /\ now = Day
    /\ last = NoCall
    /\ observed = [k \in Keys |-> "none"]
    /\ sentSeen = [k \in Keys |-> 0]
    /\ procs = [c \in Callers |-> Idle]
    /\ sendLog = <<>>
    /\ base = <<>>
    /\ round = 0
    /\ mu = Unlocked
    /\ previousWhales = {}
    /\ absentRuns = [a \in WhaleAddresses |-> 0]
    /\ runs = 0
    /\ monitor = NewMonitor
    /\ workers = <<>>
    /\ sched = NoSched
    /\ snapshot = NoSnapshot
    /\ aggregate = NewHealthAggregateJob(Day)
    /\ fanout = NoFanout

riskyRest == <<policies, seqVars, concVars, lockVars, whaleVars, oracleVars, schedVars, snapshot, fanout>>

\* HealthAggregateJob.Run, the query returning current risky positions; the
\* next run the model looks at comes step later
RunRiskyCheck(current, failing, step) ==
    LET r == checkRiskyCountSpike(aggregate, now, current)
    IN  /\ aggregate.runs < MaxRiskyRuns
        /\ aggregate' = [ started |-> TRUE,
                          last24hRiskyCount |-> r.last24hRiskyCount,
                          last24hCheckTime  |-> r.last24hCheckTime,
                          runs    |-> aggregate.runs + 1,
                          lastRun |-> [ ran |-> TRUE, at |-> now,
                                        since |-> now - aggregate.last24hCheckTime,
                                        baseline |-> aggregate.last24hRiskyCount,
                                        current |-> current,
                                        checked |-> r.checked,
                                        emitted |-> r.emitted ] ]
        /\ states' = observeAll(states, policies, now, r.emitted, 1, sinkOKOf(failing))
        /\ now' = now + step
        /\ UNCHANGED riskyRest

\* HealthAggregateJob.Run, the query failing: no check is made
RunRiskyQueryFails(step) ==
    /\ aggregate.runs < MaxRiskyRuns
    /\ aggregate' = [aggregate EXCEPT !.runs = @ + 1, !.lastRun = NoRun]
    /\ now' = now + step
    /\ UNCHANGED <<states, riskyRest>>

NextRisky ==
    \/ \E current \in RiskyCounts, failing \in RiskySinkFailures, step \in RiskySteps :
          RunRiskyCheck(current, failing, step)
    \/ \E step \in RiskySteps : RunRiskyQueryFails(step)

SpecRisky == InitRisky /\ [][NextRisky]_vars

\* the latest run of the job, when its query succeeded
RiskyRun == aggregate.lastRun

\* what a 24 h check does after the value is computed, and when it is made
RiskyCheckRest ==
    /\ RiskyRun.checked <=> RiskyRun.since >= Day
    /\ RiskyRun.checked
       => /\ Len(RiskyRun.emitted) = 1
          /\ RiskyRun.emitted[1].key = RiskyKey
          /\ RiskyRun.emitted[1].severity =
                (IF RiskyRun.emitted[1].value >= 5000 THEN SeverityCritical
                 ELSE IF RiskyRun.emitted[1].value >= 2500 THEN SeverityWarning
                 ELSE SeverityOK)
          /\ aggregate.last24hRiskyCount = RiskyRun.current
          /\ aggregate.last24hCheckTime = RiskyRun.at
    /\ ~RiskyRun.checked
       => /\ RiskyRun.emitted = <<>>
          /\ RiskyRun.at - aggregate.last24hCheckTime < Day

\* C34: at each 24 h risky-count check the value observed is
\* (currentRisky - baselineRisky) / max(1, baselineRisky) x 100 for every pair
\* of counts, baselineRisky = 0 included; it is Critical at >= 50, Warning at
\* >= 25 and OK otherwise, and the baseline count and timestamp are then set
\* to the current count and time, so that no second check is made within the
\* next 24 h.
C34_RiskyCountCheck ==
    RiskyRun.ran
    => /\ RiskyCheckRest
       /\ RiskyRun.checked
          => RiskyRun.emitted[1].value =
                ((RiskyRun.current - RiskyRun.baseline) * 10000)
                   \div (IF RiskyRun.baseline > 1 THEN RiskyRun.baseline ELSE 1)

\* C34 (amended): at each 24 h risky-count check the value observed is
\* (currentRisky - baselineRisky) / baselineRisky x 100 when baselineRisky > 0
\* and, when baselineRisky = 0, 100 if currentRisky > 0 and 0 otherwise; it
\* is Critical at >= 50, Warning at >= 25 and OK otherwise, and the baseline
\* count and timestamp are then set to the current count and time, so that
\* no second check is made within the next 24 h.
C34_RiskyCountAmended ==
    RiskyRun.ran
    => /\ RiskyCheckRest
       /\ RiskyRun.checked
          => RiskyRun.emitted[1].value =
                (IF RiskyRun.baseline > 0
                 THEN ((RiskyRun.current - RiskyRun.baseline) * 10000)
                         \div RiskyRun.baseline
                 ELSE IF RiskyRun.current > 0 THEN 10000 ELSE 0)

\* a check, not the first, that finds risky positions where the baseline
\* had none
C34_Witness ==
    /\ RiskyRun.ran /\ RiskyRun.checked
    /\ RiskyRun.at > Day
    /\ RiskyRun.baseline = 0 /\ RiskyRun.current > 1
    /\ RiskyRun.emitted[1].value = 10000
    /\ RiskyRun.emitted[1].severity = SeverityCritical

----------------------------------------------------------------------------
(* The fan-out of the token checks, OracleMonitor.checkAllTokens
   (specifications SpecFanout and SpecFanoutFair).  One goroutine per token;
   a goroutine that the loop has not started yet is like one that has not
   acquired the semaphore, so the model begins with all of them spawned.  The
   result channel has room for one result per token.  The deferred function
   makes no call that can wait (the goroutine holds a slot of the semaphore,
   the result channel has room) and is one step, as are the end of a check
   and the send of its result.  The receives of the caller's loop are taken
   together when the channel is closed. *)

\* number of token checks that panic
MaxPanics == 1

maxConcurrentTokens == 5

\* the symbols of m.chain.Tokens: one more than the semaphore admits
FanoutSymbols == {ExampleSymbols[i] : i \in 1..(maxConcurrentTokens + 1)}

\* checkAllTokens after its loop over the tokens
NewFanout ==
    [ started |-> TRUE,
      pc      |-> [g \in FanoutSymbols |-> "spawned"],
      sem     |-> 0,
      sent    |-> [g \in FanoutSymbols |-> <<>>],
      wg      |-> Cardinality(FanoutSymbols),
      closed  |-> FALSE,
      panics  |-> 0,
      mainpc  |-> "collecting",
      results |-> <<>> ]

InitFanout ==
    /\ states = <<>>
    /\ policies = <<>>
    /\ now = 0
    /\ last = NoCall
    /\ observed = [k \in Keys |-> "none"]
    /\ sentSeen = [k \in Keys |-> 0]
    /\ procs = [c \in Callers |-> Idle]
    /\ sendLog = <<>>
    /\ base = <<>>
    /\ round = 0
    /\ mu = Unlocked
    /\ previousWhales = {}
    /\ absentRuns = [a \in WhaleAddresses |-> 0]
    /\ runs = 0
    /\ monitor = NewMonitor
    /\ workers = <<>>
    /\ sched = NoSched
    /\ snapshot = NoSnapshot
    /\ aggregate = NoAggregate
    /\ fanout = NewFanout

fanoutRest == <<states, policies, now, seqVars, concVars, lockVars, whaleVars, oracleVars, schedVars, snapshot, aggregate>>

\* (mutant) a semaphore that admits every goroutine
canAcquireAlways(sem) == TRUE

\* sem <- struct{}{} can proceed: the channel of capacity maxConcurrentTokens
\* has room
canAcquire(sem) == sem < maxConcurrentTokens

\* (mutant) the slot released at the end of the goroutine's body, which a
\* panic does not reach
releaseUnlessPanicked(sem, panicked) == IF panicked THEN sem ELSE sem - 1

\* <-sem in the deferred function
release(sem, panicked) == sem - 1

\* (mutant) the panic recovered without a result
recoveredSilently(panicked) == <<>>

\* the result the deferred function sends: one, when it recovers a panic
recovered(panicked) == IF panicked THEN <<"panic">> ELSE <<>>

\* the results sent on resultChan so far
sentCount(sent) ==
    Cardinality({p \in FanoutSymbols \X (1..2) : p[2] <= Len(sent[p[1]])})

\* resultChan <- r can proceed for count results: the channel, of capacity
\* len(m.chain.Tokens), has room
canSend(sent, count) == sentCount(sent) + count <= Cardinality(FanoutSymbols)

\* sem <- struct{}{}
Acquire(g) ==
    /\ fanout.pc[g] = "spawned"
    /\ canAcquire(fanout.sem)
    /\ fanout' = [fanout EXCEPT !.pc[g] = "checking", !.sem = @ + 1]
    /\ UNCHANGED fanoutRest

\* checkToken returns, and its result is sent
CheckReturns(g) ==
    /\ fanout.pc[g] = "checking"
    /\ canSend(fanout.sent, 1)
    /\ fanout' = [fanout EXCEPT !.pc[g] = "returned",
                                !.sent[g] = Append(@, "result")]
    /\ UNCHANGED fanoutRest

\* checkToken panics
CheckPanics(g) ==
    /\ fanout.pc[g] = "checking"
    /\ fanout.panics < MaxPanics
    /\ fanout' = [fanout EXCEPT !.pc[g] = "panicked", !.panics = @ + 1]
    /\ UNCHANGED fanoutRest

\* the deferred function: release, recover, wg.Done
Deferred(g) ==
    LET panicked == fanout.pc[g] = "panicked"
    IN  /\ fanout.pc[g] \in {"returned", "panicked"}
        /\ canSend(fanout.sent, Len(recovered(panicked)))
        /\ fanout' = [fanout EXCEPT !.pc[g] = "done",
                                    !.sem = release(@, panicked),
                                    !.sent[g] = @ \o recovered(panicked),
                                    !.wg = @ - 1]
        /\ UNCHANGED fanoutRest

\* the closing goroutine: wg.Wait returns, close(resultChan)
CloseResults ==
    /\ fanout.wg = 0
    /\ ~fanout.closed
    /\ fanout' = [fanout EXCEPT !.closed = TRUE]
    /\ UNCHANGED fanoutRest

\* the loop over resultChan ends, and checkAllTokens returns
Collect ==
    /\ fanout.closed
    /\ fanout.mainpc = "collecting"
    /\ fanout' = [fanout EXCEPT !.mainpc = "returned", !.results = fanout.sent]
    /\ UNCHANGED fanoutRest

NextFanout ==
    \/ \E g \in FanoutSymbols :
          Acquire(g) \/ CheckReturns(g) \/ CheckPanics(g) \/ Deferred(g)
    \/ CloseResults
    \/ Collect

SpecFanout == InitFanout /\ [][NextFanout]_vars

\* every goroutine that can take a step takes one, and a token check returns
\* or panics
SpecFanoutFair == SpecFanout /\ WF_vars(NextFanout)

\* the goroutines in a state of the given set
In(pcs) == {g \in FanoutSymbols : fanout.pc[g] \in pcs}

FanoutReturned == fanout.mainpc = "returned"

\* C31: during the fan-out of the oracle monitor at most 5 token checks
\* execute at the same time, for any number of configured tokens, and every
\* token check that acquired a slot of the semaphore releases it, whether
\* the check returns or panics.
C31_BoundedFanOut ==
    /\ Cardinality(In({"checking"})) <= 5
    /\ fanout.sem = Cardinality(In({"checking", "returned", "panicked"}))
    /\ FanoutReturned => fanout.sem = 0

\* five checks run and the sixth waits, after a check that panicked left
\* its slot
C31_Witness ==
    /\ Cardinality(In({"checking"})) = 5
    /\ fanout.sem = 5
    /\ fanout.panics = 1
    /\ Cardinality(In({"done"})) = 1

====
